---------------------------- MODULE Spec2Model ----------------------------
(***************************************************************************)
(* Glyph outline extraction and session caching of the icon-font-subset   *)
(* plugin: the native font handle of the JNI boundary, SharedFontData      *)
(* (compose-glyphs), GlyphHandle (font-subsetting-runtime), the            *)
(* PathCommandArray they fill and the extraction that scales the outline   *)
(* and computes its bounding box.                                          *)
(*                                                                         *)
(* The shaping engine (HarfBuzz) is an external collaborator: it is        *)
(* modelled by a small synthetic font (hb_shape, hb_font_draw_glyph,       *)
(* hb_font_get_glyph_h_advance) and by nondeterministic outcomes of its    *)
(* object constructors and of hb_face_get_upem.                            *)
(***************************************************************************)
EXTENDS Integers, Sequences, FiniteSets, TLC

(***************************************************************************)
(* Bounds of the model.                                                    *)
(***************************************************************************)
\* Addresses the allocator can hand out for a NativeFontHandle.
MaxHandles == 2
\* Allocation attempts of one extraction whose outcome is chosen freely;
\* attempts after these succeed.
AllocPlanLen == 2

(***************************************************************************)
(* Program constants.                                                      *)
(***************************************************************************)
\* reserve(32) in the compose-glyphs PathCommandArray constructor
InitialReserve == 32
\* capacity == 0 ? 8 : capacity * 2 in the runtime push_back
RuntimeFirstCapacity == 8
\* hb_variation_t hb_variations[4] in SharedFontData::extractPathDirect
MaxVariationsCompose == 4
\* hb_variation_t hb_variations[16] in GlyphHandle::extractPath
MaxVariationsRuntime == 16

NULL == 0
Variants == {"compose", "runtime"}

Reverse(s) == [i \in 1..Len(s) |-> s[Len(s) + 1 - i]]
Take(s, n) == [i \in 1..(IF Len(s) < n THEN Len(s) ELSE n) |-> s[i]]

(***************************************************************************)
(* 32-bit floats, as far as the program uses them: a finite value n/d, the *)
(* constants FLT_MAX and -FLT_MAX, and what a division by zero produces    *)
(* (infinities, NaN).  Comparisons with NaN are false.                     *)
(***************************************************************************)
Fin(n, d) == [k |-> "fin", n |-> n, d |-> d]
Special(kind) == [k |-> kind, n |-> 0, d |-> 1]
FZero == Fin(0, 1)
FLT_MAX == Special("max")
NegFLT_MAX == Special("nmax")
PosInf == Special("inf")
NegInf == Special("ninf")
NaN == Special("nan")

Rank(a) ==
    CASE a.k = "ninf" -> 0
      [] a.k = "nmax" -> 1
      [] a.k = "fin" -> 2
      [] a.k = "max" -> 3
      [] a.k = "inf" -> 4

\* a < b on floats
FLt(a, b) ==
    IF a.k = "nan" \/ b.k = "nan" THEN FALSE
    ELSE IF a.k = "fin" /\ b.k = "fin" THEN a.n * b.d < b.n * a.d
    ELSE Rank(a) < Rank(b)

\* a == b on floats
FEq(a, b) ==
    IF a.k = "nan" \/ b.k = "nan" THEN FALSE
    ELSE IF a.k = "fin" /\ b.k = "fin" THEN a.n * b.d = b.n * a.d
    ELSE a.k = b.k

FLe(a, b) == FLt(a, b) \/ FEq(a, b)

\* template<typename T> T min(T a, T b) { return a < b ? a : b; }
min(a, b) == IF FLt(a, b) THEN a ELSE b

\* template<typename T> T max(T a, T b) { return a > b ? a : b; }
max(a, b) == IF FLt(b, a) THEN a ELSE b

\* float scale = 1.0f / static_cast<float>(upem);
ScaleOf(upem) == IF upem = 0 THEN PosInf ELSE Fin(1, upem)

\* x *= scale, for a finite x and the scale above
FMul(x, scale) ==
    IF scale.k = "fin" THEN Fin(x.n * scale.n, x.d * scale.d)
    ELSE IF x.n > 0 THEN PosInf
    ELSE IF x.n < 0 THEN NegInf
    ELSE NaN

(***************************************************************************)
(* PathCommand and PathCommandArray.                                       *)
(* A command is its type and six float slots f[1..6]: point = f1,f2;       *)
(* quadratic = cx f1, cy f2, x f3, y f4; cubic = cx1 f1, cy1 f2, cx2 f3,   *)
(* cy2 f4, x f5, y f6 (x1,y1,x2,y2,x3,y3 in the runtime struct).  Slots a  *)
(* callback does not assign keep whatever the stack held (junk).           *)
(***************************************************************************)
MOVE_TO == "MOVE_TO"
LINE_TO == "LINE_TO"
QUADRATIC_TO == "QUADRATIC_TO"
CUBIC_TO == "CUBIC_TO"
CLOSE == "CLOSE"

\* Number of leading slots a command of the type uses.
UsedSlots(type) ==
    CASE type = MOVE_TO -> 2
      [] type = LINE_TO -> 2
      [] type = QUADRATIC_TO -> 4
      [] type = CUBIC_TO -> 6
      [] type = CLOSE -> 0

\* The PathCommand a draw callback builds from the engine's arguments.
MakeCommand(type, args, junk) ==
    [type |-> type,
     f |-> [i \in 1..6 |-> IF i <= Len(args) THEN Fin(args[i], 1) ELSE Fin(junk, 1)]]

\* An array is its stored commands (data[0..size-1]), its capacity, the
\* number of allocations it has attempted so far, the block its data pointer
\* holds (0 is nullptr, block k is the one the k-th allocation returned) and
\* the blocks it has released.
EmptyArray == [data |-> << >>, capacity |-> 0, allocs |-> 0, storage |-> 0, freed |-> {}]

\* Outcome of the array's next allocation under the plan.
AllocSucceeds(arr, plan) ==
    IF arr.allocs + 1 <= Len(plan) THEN plan[arr.allocs + 1] ELSE TRUE

\* A reserve that assigns the allocator's result to data before looking at
\* it: a failed allocation loses the block and the commands in it.
reserveAssigningResult(arr, new_capacity, plan) ==
    IF new_capacity <= arr.capacity THEN arr
    ELSE IF ~AllocSucceeds(arr, plan)
         THEN [arr EXCEPT !.allocs = @ + 1, !.storage = 0, !.data = << >>,
                          !.capacity = 0]
         ELSE [arr EXCEPT !.allocs = @ + 1, !.capacity = new_capacity,
                          !.storage = arr.allocs + 1,
                          !.freed = @ \cup ({arr.storage} \ {0})]

\* PathCommandArray::reserve: no-op when the capacity suffices; on a failed
\* allocation (malloc or realloc returning null) the array is left as it
\* was; on success the commands move to the new block and the old block is
\* released (free in compose-glyphs, realloc moving the block in the runtime).
reserve(arr, new_capacity, plan) ==
    IF new_capacity <= arr.capacity THEN arr
    ELSE IF ~AllocSucceeds(arr, plan)
         THEN [arr EXCEPT !.allocs = @ + 1]
         ELSE [arr EXCEPT !.allocs = @ + 1, !.capacity = new_capacity,
                          !.storage = arr.allocs + 1,
                          !.freed = @ \cup ({arr.storage} \ {0})]

\* compose-glyphs: PathCommandArray::grow doubles the capacity.
grow(arr, plan) == reserve(arr, arr.capacity * 2, plan)

\* A growth by a fixed step of 8 instead of doubling.
NextCapacityLinear(arr) == arr.capacity + RuntimeFirstCapacity

\* runtime push_back: size_t new_capacity = capacity == 0 ? 8 : capacity * 2
NextCapacity(arr) ==
    IF arr.capacity = 0 THEN RuntimeFirstCapacity ELSE arr.capacity * 2

\* PathCommandArray::push_back: grow when full, store when there is room,
\* else drop the command.
push_back(variant, arr, cmd, plan) ==
    LET grown == IF Len(arr.data) < arr.capacity THEN arr
                 ELSE IF variant = "compose" THEN grow(arr, plan)
                 ELSE reserve(arr, NextCapacity(arr), plan)
    IN  IF Len(grown.data) < grown.capacity
        THEN [grown EXCEPT !.data = Append(@, cmd)]
        ELSE grown

\* PathCommandArray::PathCommandArray: compose-glyphs reserves 32 up front,
\* the runtime starts with no storage.
NewArray(variant, plan) ==
    IF variant = "compose" THEN reserve(EmptyArray, InitialReserve, plan)
    ELSE EmptyArray

\* GlyphPath::GlyphPath
NewGlyphPath(variant, plan) ==
    [commands |-> NewArray(variant, plan),
     advanceWidth |-> FZero, unitsPerEm |-> 0,
     minX |-> FZero, minY |-> FZero, maxX |-> FZero, maxY |-> FZero]

\* GlyphPath::isEmpty
isEmpty(path) == Len(path.commands.data) = 0

(***************************************************************************)
(* The shaping engine, as the extraction uses it.  A synthetic variable    *)
(* font with the axes FILL (default 0) and wght (default 400):             *)
(*   codepoint 65 -> glyph 1, or glyph 2 when FILL >= 1 (a required        *)
(*                   variation substitution, applied by shaping only);     *)
(*   codepoint 66 -> glyph 3, an outline of 34 commands;                   *)
(*   codepoint 32 -> glyph 4, a blank glyph without outline;               *)
(*   any other codepoint shapes to zero glyphs.                            *)
(***************************************************************************)
AxisTags == [FILL |-> 1179208780, wght |-> 2003265652]
DefaultCoords == [FILL |-> 0, wght |-> 400]
Axes == DOMAIN DefaultCoords

\* intToTag: the four bytes of the integer tag, most significant first.
intToTag(tag) ==
    << (tag \div 16777216) % 256, (tag \div 65536) % 256,
       (tag \div 256) % 256, tag % 256 >>

\* HB_TAG(c0 ? c0 : ' ', ...): a zero byte becomes a space.
HB_TAG(bytes) ==
    LET c(i) == IF bytes[i] # 0 THEN bytes[i] ELSE 32
    IN  c(1) * 16777216 + c(2) * 65536 + c(3) * 256 + c(4)

\* The hb_variation_t array an extraction fills: at most maxCount entries.
HbVariations(variations, maxCount) ==
    LET actual == Take(variations, maxCount)
    IN  [i \in 1..Len(actual) |->
            [tag |-> HB_TAG(actual[i].tag), value |-> actual[i].value]]

\* hb_font_set_variations: every axis returns to its default, then each
\* listed variation of a known axis sets its value (the last one wins).
hb_font_set_variations(hbvars) ==
    [a \in Axes |->
        LET hits == {i \in 1..Len(hbvars) : hbvars[i].tag = AxisTags[a]}
        IN  IF hits = {} THEN DefaultCoords[a]
            ELSE hbvars[CHOOSE i \in hits : \A j \in hits : j <= i].value]

\* The glyphs one buffer item shapes to under the font's active coords.
ShapeItem(cp, coords) ==
    CASE cp = 65 -> << IF coords.FILL >= 1 THEN 2 ELSE 1 >>
      [] cp = 66 -> << 3 >>
      [] cp = 32 -> << 4 >>
      [] OTHER -> << >>

RECURSIVE hb_shape(_, _)
\* hb_shape: the buffer's items replaced by their glyphs.
hb_shape(contents, coords) ==
    IF contents = << >> THEN << >>
    ELSE ShapeItem(Head(contents), coords) \o hb_shape(Tail(contents), coords)

\* hb_font_get_glyph_h_advance, in font units.
hb_font_get_glyph_h_advance(glyph_id) ==
    CASE glyph_id = 1 -> 600
      [] glyph_id = 2 -> 600
      [] glyph_id = 3 -> 500
      [] OTHER -> 250

\* hb_font_draw_glyph: the draw callbacks the engine makes, in font units.
\* Every contour starts with a move-to.
hb_font_draw_glyph(glyph_id, coords) ==
    CASE glyph_id = 1 ->
            << [type |-> MOVE_TO, args |-> <<0, 0>>],
               [type |-> LINE_TO, args |-> <<IF coords.wght >= 700 THEN 12 ELSE 10, 0>>],
               [type |-> QUADRATIC_TO, args |-> <<12, 14, -2, 8>>],
               [type |-> CLOSE, args |-> << >>] >>
      [] glyph_id = 2 ->
            << [type |-> MOVE_TO, args |-> <<1, 1>>],
               [type |-> CUBIC_TO, args |-> <<3, 9, 7, -4, 5, 5>>],
               [type |-> CLOSE, args |-> << >>] >>
      [] glyph_id = 3 ->
            << [type |-> MOVE_TO, args |-> <<0, 0>>] >>
            \o [i \in 1..InitialReserve |-> [type |-> LINE_TO, args |-> <<i, 0 - i>>]]
            \o << [type |-> CLOSE, args |-> << >>] >>
      [] OTHER -> << >>

(***************************************************************************)
(* SharedFontData / GlyphHandle: the engine objects of one font.  A field  *)
(* is TRUE when its pointer is non-null.  font and buffer are              *)
(* prototypeFont and reusable_buffer in SharedFontData.  coords is the     *)
(* variation state inside the hb_font, contents the items inside the       *)
(* hb_buffer.                                                              *)
(***************************************************************************)
\* SharedFontData::SharedFontData, GlyphHandle::GlyphHandle
NewSession ==
    [blob |-> FALSE, face |-> FALSE, font |-> FALSE, buffer |-> FALSE,
     draw_funcs |-> FALSE, upem |-> 0, glyph_id |-> 0, codepoint |-> 0,
     coords |-> DefaultCoords, contents |-> << >>]

\* A destroy that lets go of the blob before the face that was created
\* from it: a release order other than the reverse of creation.
destroyBlobBeforeFace(s) ==
    LET r1 == IF s.draw_funcs THEN << "hb_draw_funcs_destroy" >> ELSE << >>
        r2 == IF s.buffer THEN << "hb_buffer_destroy" >> ELSE << >>
        r3 == IF s.font THEN << "hb_font_destroy" >> ELSE << >>
        r4 == IF s.blob THEN << "hb_blob_destroy" >> ELSE << >>
        r5 == IF s.face THEN << "hb_face_destroy" >> ELSE << >>
    IN  [s |-> [s EXCEPT !.draw_funcs = FALSE, !.buffer = FALSE, !.font = FALSE,
                         !.face = FALSE, !.blob = FALSE,
                         !.coords = DefaultCoords, !.contents = << >>],
         events |-> r1 \o r2 \o r3 \o r4 \o r5]

\* A destroy that releases the objects and leaves the pointers in the
\* fields.
destroyWithoutNulling(s) ==
    LET r1 == IF s.draw_funcs THEN << "hb_draw_funcs_destroy" >> ELSE << >>
        r2 == IF s.buffer THEN << "hb_buffer_destroy" >> ELSE << >>
        r3 == IF s.font THEN << "hb_font_destroy" >> ELSE << >>
        r4 == IF s.face THEN << "hb_face_destroy" >> ELSE << >>
        r5 == IF s.blob THEN << "hb_blob_destroy" >> ELSE << >>
    IN  [s |-> s, events |-> r1 \o r2 \o r3 \o r4 \o r5]

\* SharedFontData::destroy, GlyphHandle::destroy: each non-null object is
\* released and its field nulled, in this order.
destroy(s) ==
    LET r1 == IF s.draw_funcs THEN << "hb_draw_funcs_destroy" >> ELSE << >>
        r2 == IF s.buffer THEN << "hb_buffer_destroy" >> ELSE << >>
        r3 == IF s.font THEN << "hb_font_destroy" >> ELSE << >>
        r4 == IF s.face THEN << "hb_face_destroy" >> ELSE << >>
        r5 == IF s.blob THEN << "hb_blob_destroy" >> ELSE << >>
    IN  [s |-> [s EXCEPT !.draw_funcs = FALSE, !.buffer = FALSE, !.font = FALSE,
                         !.face = FALSE, !.blob = FALSE,
                         !.coords = DefaultCoords, !.contents = << >>],
         events |-> r1 \o r2 \o r3 \o r4 \o r5]

\* The steps of initialize at which the engine can fail.
InitFailures == {"none", "blob", "face", "font", "buffer", "draw_funcs"}

\* What initialize returns when it gives up after destroy().
InitFailed(s, events) ==
    LET d == destroy(s)
    IN  [s |-> d.s, ok |-> FALSE, events |-> events \o d.events]

\* SharedFontData::initialize (variant compose) and GlyphHandle::initialize
\* (variant runtime, which also stores the codepoint and shapes it once).
\* failAt is the engine constructor that returns null, engineUpem what
\* hb_face_get_upem reports.
initialize(variant, s0, hasData, fontDataSize, cp, failAt, engineUpem) ==
    IF ~hasData \/ fontDataSize = 0 THEN [s |-> s0, ok |-> FALSE, events |-> << >>]
    ELSE
    LET sc == IF variant = "runtime" THEN [s0 EXCEPT !.codepoint = cp] ELSE s0
    IN
    IF failAt = "blob" THEN [s |-> sc, ok |-> FALSE, events |-> << >>]
    ELSE
    LET s1 == [sc EXCEPT !.blob = TRUE]
        e1 == << "hb_blob_create" >>
    IN
    IF failAt = "face" THEN InitFailed(s1, e1)
    ELSE
    LET s2 == [s1 EXCEPT !.face = TRUE, !.upem = engineUpem]
        e2 == Append(e1, "hb_face_create")
    IN
    IF failAt = "font" THEN InitFailed(s2, e2)
    ELSE
    LET s3 == [s2 EXCEPT !.font = TRUE, !.coords = DefaultCoords]
        e3 == Append(e2, "hb_font_create")
    IN
    IF failAt = "buffer" THEN InitFailed(s3, e3)
    ELSE
    LET s4 == [s3 EXCEPT !.buffer = TRUE, !.contents = << >>]
        e4 == Append(e3, "hb_buffer_create")
    IN
    IF failAt = "draw_funcs" THEN InitFailed(s4, e4)
    ELSE
    LET s5 == [s4 EXCEPT !.draw_funcs = TRUE]
        e5 == Append(e4, "hb_draw_funcs_create")
    IN
    IF variant = "compose" THEN [s |-> s5, ok |-> TRUE, events |-> e5]
    ELSE
    LET shaped == hb_shape(<< sc.codepoint >>, s5.coords)
        s6 == [s5 EXCEPT !.contents = shaped]
        e6 == Append(e5, "hb_shape")
    IN
    IF Len(shaped) = 0 THEN InitFailed(s6, e6)
    ELSE [s |-> [s6 EXCEPT !.glyph_id = shaped[1]], ok |-> TRUE, events |-> e6]

(***************************************************************************)
(* Extraction: SharedFontData::extractPathDirect (compose) and             *)
(* GlyphHandle::extractPath (runtime).                                     *)
(***************************************************************************)
MaxVariations(variant) ==
    IF variant = "compose" THEN MaxVariationsCompose ELSE MaxVariationsRuntime

\* The axis settings the call installs in the font: its own variations, cut
\* to the size of the stack array, or none (all axes at their defaults).
ApplyVariations(variant, s, variations) ==
    IF Len(variations) > 0
    THEN [s EXCEPT !.coords =
             hb_font_set_variations(HbVariations(variations, MaxVariations(variant)))]
    ELSE [s EXCEPT !.coords = hb_font_set_variations(<< >>)]

\* hb_buffer_clear_contents
hb_buffer_clear_contents(contents) == << >>

\* Clear the reusable buffer, add the codepoint, shape.
ShapeCodepoint(s, cp) ==
    [s EXCEPT !.contents =
        hb_shape(Append(hb_buffer_clear_contents(s.contents), cp), s.coords)]

RECURSIVE DrawFrom(_, _, _, _, _, _)
\* The draw callbacks from the i-th on: each builds its PathCommand and
\* appends it with push_back.  (The accumulator is bound through a
\* singleton set so that it is a value when the next callback runs.)
DrawFrom(variant, arr, calls, i, plan, junk) ==
    IF i > Len(calls) THEN arr
    ELSE CHOOSE r \in { DrawFrom(variant, next, calls, i + 1, plan, junk) :
                         next \in { push_back(variant, arr,
                                       MakeCommand(calls[i].type, calls[i].args, junk), plan) } } : TRUE

\* hb_font_draw_glyph with the PathDrawContext of the result: the array
\* after the engine has made all its callbacks.
DrawInto(variant, arr, calls, plan, junk) == DrawFrom(variant, arr, calls, 1, plan, junk)

\* A scaling loop that multiplies the point of a command only and leaves
\* the further coordinates of a curve in font units.
ScaleCommandPointOnly(cmd, scale) ==
    [cmd EXCEPT !.f = [i \in 1..6 |->
        IF i <= UsedSlots(cmd.type) /\ i <= 2 THEN FMul(cmd.f[i], scale) ELSE cmd.f[i]]]

\* The scaling loop: every slot the command's type uses is multiplied by
\* the scale, the others are left alone.
ScaleCommand(cmd, scale) ==
    [cmd EXCEPT !.f = [i \in 1..6 |->
        IF i <= UsedSlots(cmd.type) THEN FMul(cmd.f[i], scale) ELSE cmd.f[i]]]

ScaleCommands(cmds, scale) == [i \in 1..Len(cmds) |-> ScaleCommand(cmds[i], scale)]

\* One step of the bounding-box loop.  compose-glyphs folds the points of a
\* command with nested min/max first; the runtime folds them one by one.
BoxStep(variant, box, cmd) ==
    LET f == cmd.f
        one(b, x, y) ==
            [minX |-> min(b.minX, x), minY |-> min(b.minY, y),
             maxX |-> max(b.maxX, x), maxY |-> max(b.maxY, y)]
    IN
    CASE cmd.type \in {MOVE_TO, LINE_TO} -> one(box, f[1], f[2])
      [] cmd.type = QUADRATIC_TO ->
            IF variant = "compose"
            THEN [minX |-> min(box.minX, min(f[1], f[3])),
                  minY |-> min(box.minY, min(f[2], f[4])),
                  maxX |-> max(box.maxX, max(f[1], f[3])),
                  maxY |-> max(box.maxY, max(f[2], f[4]))]
            ELSE one(one(box, f[1], f[2]), f[3], f[4])
      [] cmd.type = CUBIC_TO ->
            IF variant = "compose"
            THEN [minX |-> min(box.minX, min(min(f[1], f[3]), f[5])),
                  minY |-> min(box.minY, min(min(f[2], f[4]), f[6])),
                  maxX |-> max(box.maxX, max(max(f[1], f[3]), f[5])),
                  maxY |-> max(box.maxY, max(max(f[2], f[4]), f[6]))]
            ELSE one(one(one(box, f[1], f[2]), f[3], f[4]), f[5], f[6])
      [] OTHER -> box

RECURSIVE BoxFrom(_, _, _, _)
\* The bounding-box loop from the i-th stored command on.
BoxFrom(variant, box, cmds, i) ==
    IF i > Len(cmds) THEN box
    ELSE CHOOSE r \in { BoxFrom(variant, next, cmds, i + 1) :
                         next \in { BoxStep(variant, box, cmds[i]) } } : TRUE

BoxFold(variant, box, cmds) == BoxFrom(variant, box, cmds, 1)

\* float pathMinX = FLT_MAX, ..., pathMaxY = -FLT_MAX; then the loop.
BoundingBox(variant, cmds) ==
    BoxFold(variant,
            [minX |-> FLT_MAX, minY |-> FLT_MAX, maxX |-> NegFLT_MAX, maxY |-> NegFLT_MAX],
            cmds)

\* What a call that did not get as far as shaping reports about itself.
NoTrace == [shaped |-> FALSE, glyphCount |-> 0, glyph_id |-> 0,
            scaled |-> FALSE, walk |-> << >>]

\* if (!prototypeFont || !reusable_buffer || !draw_funcs) return result;
InvalidSessionReturn(result, s) == [path |-> result, s |-> s, trace |-> NoTrace]

\* A zero-glyph return that hands back a freshly zeroed GlyphPath instead
\* of the result the call has already written unitsPerEm to.
ZeroGlyphReturnZeroed(result, s) ==
    [path |-> [result EXCEPT !.unitsPerEm = 0], s |-> s,
     trace |-> [NoTrace EXCEPT !.shaped = TRUE]]

\* if (glyph_count == 0 || !glyph_info) return result;
ZeroGlyphReturn(result, s) ==
    [path |-> result, s |-> s,
     trace |-> [NoTrace EXCEPT !.shaped = TRUE]]

\* The rest of the extraction once shaping found a glyph: advance, outline
\* walk, scaling and bounding box.
GlyphFoundReturn(variant, result, s, plan, junk) ==
    LET glyph_id == s.contents[1]
        s1 == IF variant = "runtime" THEN [s EXCEPT !.glyph_id = glyph_id] ELSE s
        advance_width == hb_font_get_glyph_h_advance(glyph_id)
        scale == ScaleOf(s.upem)
        walk == hb_font_draw_glyph(glyph_id, s.coords)
        drawn == DrawInto(variant, result.commands, walk, plan, junk)
        scaledCmds == ScaleCommands(drawn.data, scale)
        box == BoundingBox(variant, scaledCmds)
    IN  [path |-> [result EXCEPT !.advanceWidth = FMul(Fin(advance_width, 1), scale),
                                 !.commands = [drawn EXCEPT !.data = scaledCmds],
                                 !.minX = box.minX, !.minY = box.minY,
                                 !.maxX = box.maxX, !.maxY = box.maxY],
         s |-> s1,
         trace |-> [shaped |-> TRUE, glyphCount |-> Len(s.contents),
                    glyph_id |-> glyph_id, scaled |-> TRUE, walk |-> walk]]

\* SharedFontData::extractPathDirect(codepoint, variations, variationCount);
\* GlyphHandle::extractPath(variations, variationCount) with the handle's
\* own codepoint.  plan decides the call's allocations, junk is what the
\* unassigned slots of a command hold.
extractPath(variant, s, codepoint, variations, plan, junk) ==
    LET result == NewGlyphPath(variant, plan)
        cp == IF variant = "runtime" THEN s.codepoint ELSE codepoint
    IN
    IF ~s.font \/ ~s.buffer \/ ~s.draw_funcs THEN InvalidSessionReturn(result, s)
    ELSE
    LET r1 == [result EXCEPT !.unitsPerEm = s.upem]
        s2 == ShapeCodepoint(ApplyVariations(variant, s, variations), cp)
    IN
    IF Len(s2.contents) = 0 THEN ZeroGlyphReturn(r1, s2)
    ELSE GlyphFoundReturn(variant, r1, s2, plan, junk)

(***************************************************************************)
(* packGlyphPathToArray (font_path_jni.cpp of both libraries): the float   *)
(* array handed to the JVM.                                                *)
(***************************************************************************)
\* 7 + commandFloats: the slots of the header
HeaderSlots == 7
\* commands.size * 10 in the compose-glyphs packer
ComposeRecordWidth == 10
\* commands.size * 7 in the runtime packer
RuntimeRecordWidth == 7
\* if (totalSize < 256): the critical-section path, else the malloc path
CriticalLimit == 256
\* Integers up to 2^24 are floats; above, a float keeps 24 significant bits.
FloatMantissa == 16777216

\* static_cast<float>(n) for n >= 0: exact up to 2^24, beyond rounded to
\* the nearest float (ties to even).
ToFloat(n) ==
    IF n < FloatMantissa THEN Fin(n, 1)
    ELSE LET step == CHOOSE s \in {2, 4, 8, 16, 32, 64, 128} :
                        /\ n \div s < FloatMantissa
                        /\ n \div (s \div 2) >= FloatMantissa
             q == n \div step
             r == n % step
             up == 2 * r > step \/ (2 * r = step /\ q % 2 = 1)
         IN  Fin((IF up THEN q + 1 ELSE q) * step, 1)

\* enum Type { MOVE_TO, LINE_TO, QUADRATIC_TO, CUBIC_TO, CLOSE } of the
\* runtime header.
RuntimeTypeCode(type) ==
    CASE type = MOVE_TO -> 0
      [] type = LINE_TO -> 1
      [] type = QUADRATIC_TO -> 2
      [] type = CUBIC_TO -> 3
      [] type = CLOSE -> 4

\* The values of PathCommand::Type in compose-glyphs, whose header declares
\* the enum: MoveTo=0, LineTo=1, QuadraticTo=2, CubicTo=3, Close=4.
ComposeTypeCode(type) ==
    CASE type = MOVE_TO -> 0
      [] type = LINE_TO -> 1
      [] type = QUADRATIC_TO -> 2
      [] type = CUBIC_TO -> 3
      [] type = CLOSE -> 4

\* A header that writes maxX before minY.
PackHeaderSwapped(glyphPath) ==
    << ToFloat(Len(glyphPath.commands.data)), glyphPath.advanceWidth,
       ToFloat(glyphPath.unitsPerEm),
       glyphPath.minX, glyphPath.maxX, glyphPath.minY, glyphPath.maxY >>

\* Header: [numCommands, advanceWidth, unitsPerEm, minX, minY, maxX, maxY]
PackHeader(glyphPath) ==
    << ToFloat(Len(glyphPath.commands.data)), glyphPath.advanceWidth,
       ToFloat(glyphPath.unitsPerEm),
       glyphPath.minX, glyphPath.minY, glyphPath.maxX, glyphPath.maxY >>

\* A record that leaves the padding out.
CriticalRecordUnpadded(cmd) ==
    << ToFloat(ComposeTypeCode(cmd.type)),
       cmd.f[1], cmd.f[2], cmd.f[3], cmd.f[4], cmd.f[5], cmd.f[6] >>

\* A record that copies the first point only and zeroes the other floats.
BufferRecordPointOnly(cmd) ==
    << ToFloat(ComposeTypeCode(cmd.type)), FZero, FZero, FZero,
       cmd.f[1], cmd.f[2], FZero, FZero, FZero, FZero >>

\* compose-glyphs, critical-section path: type, three padding floats, then
\* all six floats of the union whatever the type.
CriticalRecord(cmd) ==
    << ToFloat(ComposeTypeCode(cmd.type)), FZero, FZero, FZero,
       cmd.f[1], cmd.f[2], cmd.f[3], cmd.f[4], cmd.f[5], cmd.f[6] >>

\* compose-glyphs, temporary-buffer path: the same ten writes.
BufferRecord(cmd) ==
    << ToFloat(ComposeTypeCode(cmd.type)), FZero, FZero, FZero,
       cmd.f[1], cmd.f[2], cmd.f[3], cmd.f[4], cmd.f[5], cmd.f[6] >>

\* runtime: [type, x1, y1, x2, y2, x3, y3]
RuntimeRecord(cmd) ==
    << ToFloat(RuntimeTypeCode(cmd.type)),
       cmd.f[1], cmd.f[2], cmd.f[3], cmd.f[4], cmd.f[5], cmd.f[6] >>

RECURSIVE CriticalFrom(_, _, _)
\* The command loop of the critical-section path from the i-th command on.
CriticalFrom(data, cmds, i) ==
    IF i > Len(cmds) THEN data
    ELSE CHOOSE r \in { CriticalFrom(next, cmds, i + 1) :
                         next \in { data \o CriticalRecord(cmds[i]) } } : TRUE

RECURSIVE BufferFrom(_, _, _)
\* The command loop of the temporary-buffer path from the i-th command on.
BufferFrom(data, cmds, i) ==
    IF i > Len(cmds) THEN data
    ELSE CHOOSE r \in { BufferFrom(next, cmds, i + 1) :
                         next \in { data \o BufferRecord(cmds[i]) } } : TRUE

RECURSIVE RuntimeFrom(_, _, _)
\* The command loop of the runtime packer from the i-th command on.
RuntimeFrom(data, cmds, i) ==
    IF i > Len(cmds) THEN data
    ELSE CHOOSE r \in { RuntimeFrom(next, cmds, i + 1) :
                         next \in { data \o RuntimeRecord(cmds[i]) } } : TRUE

\* compose-glyphs fast path: GetPrimitiveArrayCritical, header, commands.
PackCritical(glyphPath) ==
    CriticalFrom(PackHeader(glyphPath), glyphPath.commands.data, 1)

\* compose-glyphs slow path: malloc, header, commands, SetFloatArrayRegion.
PackThroughBuffer(glyphPath) ==
    BufferFrom(PackHeader(glyphPath), glyphPath.commands.data, 1)

\* The runtime packer: always the critical section.
PackRuntime(glyphPath) ==
    RuntimeFrom(PackHeader(glyphPath), glyphPath.commands.data, 1)

\* unsigned long totalSize = 7 + commandFloats
TotalSize(variant, glyphPath) ==
    HeaderSlots + Len(glyphPath.commands.data) *
        (IF variant = "compose" THEN ComposeRecordWidth ELSE RuntimeRecordWidth)

\* packGlyphPathToArray.  allocOk is the outcome of NewFloatArray and of
\* GetPrimitiveArrayCritical or malloc; a failure returns null.
packGlyphPathToArray(variant, glyphPath, allocOk) ==
    IF ~allocOk THEN [array |-> FALSE, data |-> << >>]
    ELSE IF variant = "runtime" THEN [array |-> TRUE, data |-> PackRuntime(glyphPath)]
    ELSE IF TotalSize(variant, glyphPath) < CriticalLimit
         THEN [array |-> TRUE, data |-> PackCritical(glyphPath)]
         ELSE [array |-> TRUE, data |-> PackThroughBuffer(glyphPath)]

\* An entry point that packs whatever the extraction returned.
ReturnPackedUnchecked(variant, glyphPath, allocOk) ==
    packGlyphPathToArray(variant, glyphPath, allocOk)

\* The end of every nativeExtractPath entry point: null for an empty
\* GlyphPath, else the packed array.
ReturnPacked(variant, glyphPath, allocOk) ==
    IF isEmpty(glyphPath) THEN [array |-> FALSE, data |-> << >>]
    ELSE packGlyphPathToArray(variant, glyphPath, allocOk)

(***************************************************************************)
(* State.                                                                  *)
(***************************************************************************)
VARIABLES
    variant,      \* the library under execution: "compose" runs the JNI
                  \* boundary over SharedFontData, "runtime" a GlyphHandle
    handles,      \* address -> "unallocated" | "live" | "freed": the memory
                  \* of the NativeFontHandle at the address
    fontData,     \* address -> "none" | "live" | "freed": handle->fontData
    sharedFont,   \* address -> the SharedFontData of handle->sharedFont
    glyphHandle,  \* the GlyphHandle object of the runtime variant
    call,         \* the last call: its arguments, result and what it did
    probe,        \* the arguments whose first result is remembered
    first,        \* the result of the first extraction with the probe
    conc,         \* two callers' extraction calls in flight, step by step
    subset,       \* the subsetting plugin: its last call and the output file
    validation,   \* the last nativeValidateFont call
    pathArray,       \* a PathCommandArray under direct construct / push_back /
                  \* reserve / clear calls
    logging,      \* the logging globals and the calls in flight on them
    variationCall \* the variations the last nativeExtractPathN call parsed
                  \* and handed to the engine

vars == << variant, handles, fontData, sharedFont, glyphHandle, call, probe, first,
          conc, subset, validation, pathArray, logging,
          variationCall >>

Addresses == 1..MaxHandles

\* Values hb_face_get_upem may report.
UpemValues == {0, 1000}

\* Variations as the callers pass them: an integer tag and a value.
VarFill == [tag |-> AxisTags.FILL, value |-> 1]
VarWght == [tag |-> AxisTags.wght, value |-> 700]
VarWghtDefault == [tag |-> AxisTags.wght, value |-> 400]

\* Argument lists of nativeExtractPath0..3.
FixedVariations ==
    { << >>, << VarFill >>, << VarWght, VarFill >>, << VarWght, VarWghtDefault, VarWght >> }

\* Argument lists of nativeExtractPathN and GlyphHandle::extractPath; the
\* last one fills more than four slots.
ManyVariations ==
    { << >>, << VarWght >>,
      << VarWght, VarWghtDefault, VarWght, VarWghtDefault, VarFill >> }

Codepoints == {65, 66, 32, 9}
AllocPlans == [1..AllocPlanLen -> BOOLEAN]
JunkValues == {-9999, 9999}

\* The Variation array an entry point fills from its (tag, value) arguments.
ToVariations(tagged) ==
    [i \in 1..Len(tagged) |-> [tag |-> intToTag(tagged[i].tag), value |-> tagged[i].value]]

NoPath == NewGlyphPath("runtime", << >>)
NoCall ==
    [op |-> "none", ptr |-> NULL, ret |-> NULL, array |-> FALSE, packed |-> << >>,
     before |-> "none",
     initOk |-> FALSE, events |-> << >>, codepoint |-> 0, variations |-> << >>,
     path |-> NoPath, trace |-> NoTrace, upem |-> 0]
None == [set |-> FALSE, path |-> NoPath]

(***************************************************************************)
(* The JNI boundary (font_path_jni.cpp of both libraries).                 *)
(***************************************************************************)
\* nativeCreateFontHandle.  bytes is the jbyteArray ("null", "empty" or
\* "font"); mallocOk and elementsOk are the outcomes of malloc and
\* GetByteArrayElements; addr is the address operator new returns.
nativeCreateFontHandle(bytes, mallocOk, elementsOk, addr, failAt, engineUpem) ==
    /\ variant = "compose"
    /\ handles[addr] # "live"
    /\ IF bytes # "font" \/ ~mallocOk \/ ~elementsOk
       THEN /\ call' = [NoCall EXCEPT !.op = "create", !.ret = NULL,
                          !.events = IF bytes = "font" /\ mallocOk
                                     THEN << "malloc_fontData", "free_fontData" >>
                                     ELSE << >>]
            /\ UNCHANGED << handles, fontData, sharedFont >>
       ELSE LET init == initialize("compose", NewSession, TRUE, 1, 0, failAt, engineUpem)
            IN  /\ handles' = [handles EXCEPT ![addr] = "live"]
                /\ fontData' = [fontData EXCEPT ![addr] = "live"]
                /\ sharedFont' = [sharedFont EXCEPT ![addr] = init.s]
                /\ call' = [NoCall EXCEPT !.op = "create", !.ret = addr,
                              !.initOk = init.ok,
                              !.events = << "malloc_fontData", "new_NativeFontHandle",
                                            "new_SharedFontData" >> \o init.events]
    /\ UNCHANGED << variationCall, pathArray, logging, validation, variant, glyphHandle, probe, first, conc, subset >>

\* nativeDestroyFontHandle on a live handle: the bytes are freed, then the
\* SharedFontData is deleted (its destructor runs destroy()), then the handle.
DestroyLive(ptr) ==
    LET d == destroy(sharedFont[ptr])
    IN  /\ handles' = [handles EXCEPT ![ptr] = "freed"]
        /\ fontData' = [fontData EXCEPT ![ptr] = "freed"]
        /\ sharedFont' = [sharedFont EXCEPT ![ptr] = NewSession]
        /\ call' = [NoCall EXCEPT !.op = "destroy", !.ptr = ptr, !.before = "live",
                      !.events = << "free_fontData" >> \o d.events
                                 \o << "delete_SharedFontData", "delete_NativeFontHandle" >>]

\* nativeDestroyFontHandle on a handle that was deleted before: its fields
\* are read from freed memory, so either may read as null or as a dangling
\* pointer, which is then freed again; the handle is deleted again.
DestroyFreed(ptr, seesFontData, seesSharedFont) ==
    /\ call' = [NoCall EXCEPT !.op = "destroy", !.ptr = ptr, !.before = "freed",
                  !.events = << "read_freed_handle" >>
                     \o (IF seesFontData THEN << "free_dangling_fontData" >> ELSE << >>)
                     \o (IF seesSharedFont THEN << "delete_dangling_SharedFontData" >> ELSE << >>)
                     \o << "delete_freed_NativeFontHandle" >>]
    /\ UNCHANGED << handles, fontData, sharedFont >>

nativeDestroyFontHandle(ptr, seesFontData, seesSharedFont) ==
    /\ variant = "compose"
    /\ \/ /\ ptr = NULL
          /\ call' = [NoCall EXCEPT !.op = "destroy", !.ptr = NULL]
          /\ UNCHANGED << handles, fontData, sharedFont >>
       \/ /\ ptr # NULL
          /\ handles[ptr] = "live"
          /\ DestroyLive(ptr)
       \/ /\ ptr # NULL
          /\ handles[ptr] = "freed"
          /\ DestroyFreed(ptr, seesFontData, seesSharedFont)
    /\ UNCHANGED << variationCall, pathArray, logging, validation, variant, glyphHandle, probe, first, conc, subset >>

\* The result of the first extraction with the probe's arguments.
Remember(codepoint, variations, path) ==
    IF ~first.set /\ probe = [codepoint |-> codepoint, variations |-> variations]
    THEN [set |-> TRUE, path |-> path]
    ELSE first

\* The common body of nativeExtractPath0/1/2/3/N once the Variation array
\* is filled.  packOk is the outcome of the allocations packing needs;
\* staleArray is what a call through a deleted handle happens to return.
ExtractThroughHandle(op, ptr, codepoint, variations, plan, junk, packOk, staleArray) ==
    /\ variant = "compose"
    /\ \/ /\ ptr = NULL
          /\ call' = [NoCall EXCEPT !.op = op, !.ptr = NULL,
                        !.codepoint = codepoint, !.variations = variations]
          /\ UNCHANGED << sharedFont, first >>
       \/ /\ ptr # NULL
          /\ handles[ptr] = "live"
          /\ \E x \in { extractPath("compose", sharedFont[ptr], codepoint,
                                     variations, plan, junk) } :
             \E returned \in { ReturnPacked("compose", x.path, packOk) } :
                 /\ sharedFont' = [sharedFont EXCEPT ![ptr] = x.s]
                 /\ call' = [NoCall EXCEPT !.op = op, !.ptr = ptr, !.before = "live",
                               !.codepoint = codepoint, !.variations = variations,
                               !.events = << "read_handle" >>,
                               !.array = returned.array, !.packed = returned.data,
                               !.path = x.path, !.trace = x.trace,
                               !.upem = sharedFont[ptr].upem]
                 /\ first' = Remember(codepoint, variations, x.path)
       \/ /\ ptr # NULL
          /\ handles[ptr] = "freed"
          /\ call' = [NoCall EXCEPT !.op = op, !.ptr = ptr, !.before = "freed",
                        !.codepoint = codepoint, !.variations = variations,
                        !.events = << "read_freed_handle" >>,
                        !.array = staleArray]
          /\ UNCHANGED << sharedFont, first >>
    /\ UNCHANGED << variationCall, pathArray, logging, validation, variant, handles, fontData, glyphHandle, probe, conc, subset >>

\* nativeExtractPath0, nativeExtractPath1, nativeExtractPath2 and
\* nativeExtractPath3: the entry point is the one with as many (tag, value)
\* pairs as it is given.
nativeExtractPathFixed(ptr, codepoint, tagged, plan, junk, packOk, staleArray) ==
    /\ Len(tagged) <= 3
    /\ ExtractThroughHandle("extract", ptr, codepoint, ToVariations(tagged),
                            plan, junk, packOk, staleArray)

\* nativeExtractPathN: the variations are read from the two arrays when
\* both are given and of the same non-zero length, at most four of them.
nativeExtractPathN(ptr, codepoint, tags, values, plan, junk, packOk, staleArray) ==
    LET usable == tags # << >> /\ Len(tags) = Len(values)
        count == IF ~usable THEN 0
                 ELSE IF Len(tags) > MaxVariationsCompose THEN MaxVariationsCompose
                 ELSE Len(tags)
        variations == [i \in 1..count |-> [tag |-> intToTag(tags[i]), value |-> values[i]]]
    IN  ExtractThroughHandle("extractN", ptr, codepoint, variations,
                             plan, junk, packOk, staleArray)

(***************************************************************************)
(* GlyphHandle used directly (font-subsetting-runtime).                    *)
(***************************************************************************)
GlyphHandleInitialized(s) == s.blob \/ s.face \/ s.font \/ s.buffer \/ s.draw_funcs

\* GlyphHandle::initialize on a handle that holds no engine object.
GlyphHandle_initialize(hasData, cp, failAt, engineUpem) ==
    /\ variant = "runtime"
    /\ ~GlyphHandleInitialized(glyphHandle)
    /\ LET init == initialize("runtime", glyphHandle, hasData, IF hasData THEN 1 ELSE 0,
                              cp, failAt, engineUpem)
       IN  /\ glyphHandle' = init.s
           /\ call' = [NoCall EXCEPT !.op = "initialize", !.initOk = init.ok,
                         !.events = init.events, !.codepoint = cp]
    /\ UNCHANGED << variationCall, pathArray, logging, validation, variant, handles, fontData, sharedFont, probe, first, conc, subset >>

\* GlyphHandle::destroy (also run by the destructor).
GlyphHandle_destroy ==
    /\ variant = "runtime"
    /\ LET d == destroy(glyphHandle)
       IN  /\ glyphHandle' = d.s
           /\ call' = [NoCall EXCEPT !.op = "gh_destroy",
                         !.before = IF GlyphHandleInitialized(glyphHandle)
                                    THEN "live" ELSE "none",
                         !.events = d.events]
    /\ UNCHANGED << variationCall, pathArray, logging, validation, variant, handles, fontData, sharedFont, probe, first, conc, subset >>

\* GlyphHandle::extractPath
GlyphHandle_extractPath(tagged, plan, junk) ==
    /\ variant = "runtime"
    /\ \E variations \in { ToVariations(tagged) } :
       \E x \in { extractPath("runtime", glyphHandle, glyphHandle.codepoint,
                               variations, plan, junk) } :
           /\ glyphHandle' = x.s
           /\ call' = [NoCall EXCEPT !.op = "gh_extract", !.before = "live",
                         !.codepoint = glyphHandle.codepoint, !.variations = variations,
                         !.path = x.path, !.trace = x.trace,
                         !.upem = glyphHandle.upem]
           /\ first' = Remember(glyphHandle.codepoint, variations, x.path)
    /\ UNCHANGED << variationCall, pathArray, logging, validation, variant, handles, fontData, sharedFont, probe, conc, subset >>

\* The end of the runtime library's nativeExtractPath entry points, applied
\* to the GlyphPath the last GlyphHandle::extractPath returned: null for an
\* empty path, else the 7-wide packed array.
packExtracted(allocOk) ==
    /\ variant = "runtime"
    /\ call.op = "gh_extract"
    /\ \E returned \in { ReturnPacked("runtime", call.path, allocOk) } :
           call' = [call EXCEPT !.op = "gh_pack", !.array = returned.array,
                                !.packed = returned.data]
    /\ UNCHANGED << variationCall, pathArray, logging, validation, variant, handles, fontData, sharedFont, glyphHandle, probe, first, conc, subset >>

(***************************************************************************)
(* Two callers inside SharedFontData::extractPathDirect at once.  The      *)
(* function takes no lock, so a call is a sequence of engine calls on the  *)
(* session's prototypeFont and reusable_buffer, and the engine calls of    *)
(* two callers may alternate.  What keeps them apart is the caller's       *)
(* discipline:                                                             *)
(*   "unguarded"    both callers use session 1, with nothing around it;    *)
(*   "mutex"        both use session 1, each call inside the callers'      *)
(*                  own mutex of that session;                             *)
(*   "own_session"  caller t uses session t.                               *)
(* coordsBy, itemsBy and touchedBy record which caller last set the axis   *)
(* settings, added the buffer's items and changed the buffer; foreign      *)
(* records that a call shaped, read or drew what another call had set.     *)
(***************************************************************************)
Threads == {1, 2}
Disciplines == {"unguarded", "mutex", "own_session"}

SessionOf(discipline, t) == IF discipline = "own_session" THEN t ELSE 1

\* Callers that enter the session whether or not another call is inside.
AlwaysEnter(discipline, holder, s) == TRUE

\* The callers' mutex: with it, a call starts only when no call is inside.
MayEnter(discipline, holder, s) == discipline # "mutex" \/ holder[s] = 0

\* One PathDrawContext kept for all calls, pointing at one call's array.
SharedContext(t) == 1

\* PathDrawContext ctx; ctx.commands = &result.commands;  a local of the
\* call that points at the call's own result.
ContextOf(t) == t

NoThread ==
    [pc |-> "idle", session |-> 0, codepoint |-> 0, variations |-> << >>,
     result |-> NoPath, ctx |-> 0, glyph_id |-> 0, foreign |-> FALSE]

NoConc ==
    [discipline |-> "none", threads |-> [t \in Threads |-> NoThread],
     holder |-> [s \in Threads |-> 0], coordsBy |-> [s \in Threads |-> 0],
     itemsBy |-> [s \in Threads |-> {}], touchedBy |-> [s \in Threads |-> 0]]

\* The arguments the two callers choose from.
ConcurrentCalls ==
    { [codepoint |-> 65, variations |-> ToVariations(<< VarFill >>)],
      [codepoint |-> 65, variations |-> ToVariations(<< VarWght >>)],
      [codepoint |-> 32, variations |-> << >>] }

ThreadAt(t, pc) == conc.threads[t].pc = pc

\* The caller leaves the call (and its mutex, when it holds one).
Leave(c, t, s) ==
    [c EXCEPT !.threads[t].pc = "done",
              !.holder[s] = IF @ = t THEN 0 ELSE @]

\* Entry: GlyphPath result; the null checks; result.unitsPerEm = upem.
ExtractBegin(t, args) ==
    /\ conc.discipline \in Disciplines
    /\ ThreadAt(t, "idle")
    /\ \E s \in { SessionOf(conc.discipline, t) } :
         /\ MayEnter(conc.discipline, conc.holder, s)
         /\ \E entered \in { [conc EXCEPT
                 !.holder[s] = IF conc.discipline = "mutex" THEN t ELSE @,
                 !.threads[t] = [NoThread EXCEPT
                     !.session = s, !.codepoint = args.codepoint,
                     !.variations = args.variations,
                     !.result = NewGlyphPath("compose", << >>)]] } :
              conc' = IF ~sharedFont[s].font \/ ~sharedFont[s].buffer
                         \/ ~sharedFont[s].draw_funcs
                      THEN Leave(entered, t, s)
                      ELSE [entered EXCEPT !.threads[t].pc = "set_variations",
                                           !.threads[t].result.unitsPerEm = sharedFont[s].upem]
    /\ UNCHANGED << variationCall, pathArray, logging, validation, variant, handles, fontData, sharedFont, glyphHandle, call, probe,
                    first, subset >>

\* hb_font_set_variations(prototypeFont, ...)
ExtractSetVariations(t) ==
    /\ ThreadAt(t, "set_variations")
    /\ \E s \in { conc.threads[t].session } :
         /\ sharedFont' = [sharedFont EXCEPT ![s] =
                ApplyVariations("compose", @, conc.threads[t].variations)]
         /\ conc' = [conc EXCEPT !.threads[t].pc = "clear", !.coordsBy[s] = t]
    /\ UNCHANGED << variationCall, pathArray, logging, validation, variant, handles, fontData, glyphHandle, call, probe, first, subset >>

\* hb_buffer_clear_contents(reusable_buffer)
ExtractClear(t) ==
    /\ ThreadAt(t, "clear")
    /\ \E s \in { conc.threads[t].session } :
         /\ sharedFont' = [sharedFont EXCEPT ![s].contents = hb_buffer_clear_contents(@)]
         /\ conc' = [conc EXCEPT !.threads[t].pc = "add", !.itemsBy[s] = {},
                                 !.touchedBy[s] = t]
    /\ UNCHANGED << variationCall, pathArray, logging, validation, variant, handles, fontData, glyphHandle, call, probe, first, subset >>

\* hb_buffer_add(reusable_buffer, codepoint, 0) and the buffer properties.
ExtractAdd(t) ==
    /\ ThreadAt(t, "add")
    /\ \E s \in { conc.threads[t].session } :
         /\ sharedFont' = [sharedFont EXCEPT ![s].contents =
                                Append(@, conc.threads[t].codepoint)]
         /\ conc' = [conc EXCEPT !.threads[t].pc = "shape",
                                 !.itemsBy[s] = @ \cup {t}, !.touchedBy[s] = t]
    /\ UNCHANGED << variationCall, pathArray, logging, validation, variant, handles, fontData, glyphHandle, call, probe, first, subset >>

\* hb_shape(prototypeFont, reusable_buffer, nullptr, 0)
ExtractShape(t) ==
    /\ ThreadAt(t, "shape")
    /\ \E s \in { conc.threads[t].session } :
         /\ sharedFont' = [sharedFont EXCEPT ![s].contents =
                                hb_shape(@, sharedFont[s].coords)]
         /\ conc' = [conc EXCEPT
                !.threads[t].pc = "glyph_infos",
                !.threads[t].foreign =
                    @ \/ conc.coordsBy[s] # t \/ conc.itemsBy[s] # {t}
                      \/ conc.touchedBy[s] # t,
                !.touchedBy[s] = t]
    /\ UNCHANGED << variationCall, pathArray, logging, validation, variant, handles, fontData, glyphHandle, call, probe, first, subset >>

\* hb_buffer_get_glyph_infos; return result when there is no glyph; else
\* glyph_id = glyph_info[0].codepoint.
ExtractGlyphInfos(t) ==
    /\ ThreadAt(t, "glyph_infos")
    /\ \E s \in { conc.threads[t].session } :
         \E read \in { [conc EXCEPT !.threads[t].foreign =
                           @ \/ conc.itemsBy[s] # {t} \/ conc.touchedBy[s] # t] } :
            conc' = IF Len(sharedFont[s].contents) = 0 THEN Leave(read, t, s)
                    ELSE [read EXCEPT !.threads[t].pc = "advance",
                                      !.threads[t].glyph_id = sharedFont[s].contents[1]]
    /\ UNCHANGED << variationCall, pathArray, logging, validation, variant, handles, fontData, sharedFont, glyphHandle, call, probe,
                    first, subset >>

\* hb_font_get_glyph_h_advance; result.advanceWidth; the PathDrawContext.
ExtractAdvance(t) ==
    /\ ThreadAt(t, "advance")
    /\ \E s \in { conc.threads[t].session } :
         conc' = [conc EXCEPT
             !.threads[t].pc = "draw",
             !.threads[t].ctx = ContextOf(t),
             !.threads[t].foreign = @ \/ conc.coordsBy[s] # t,
             !.threads[t].result.advanceWidth =
                 FMul(Fin(hb_font_get_glyph_h_advance(conc.threads[t].glyph_id), 1),
                      ScaleOf(sharedFont[s].upem))]
    /\ UNCHANGED << variationCall, pathArray, logging, validation, variant, handles, fontData, sharedFont, glyphHandle, call, probe,
                    first, subset >>

\* hb_font_draw_glyph(prototypeFont, glyph_id, draw_funcs, &ctx): the
\* callbacks append to the array the context points at.
ExtractDraw(t, junk) ==
    /\ ThreadAt(t, "draw")
    /\ \E s \in { conc.threads[t].session }, target \in { conc.threads[t].ctx } :
         \E drawn \in { DrawInto("compose", conc.threads[target].result.commands,
                                 hb_font_draw_glyph(conc.threads[t].glyph_id,
                                                    sharedFont[s].coords),
                                 << >>, junk) } :
            conc' = [conc EXCEPT
                !.threads[target].result.commands = drawn,
                !.threads[t].pc = "scale",
                !.threads[t].foreign = @ \/ conc.coordsBy[s] # t]
    /\ UNCHANGED << variationCall, pathArray, logging, validation, variant, handles, fontData, sharedFont, glyphHandle, call, probe,
                    first, subset >>

\* The scaling and bounding-box loop over result.commands; return result.
ExtractScale(t) ==
    /\ ThreadAt(t, "scale")
    /\ \E s \in { conc.threads[t].session } :
         \E scaledCmds \in { ScaleCommands(conc.threads[t].result.commands.data,
                                          ScaleOf(sharedFont[s].upem)) } :
         \E box \in { BoundingBox("compose", scaledCmds) } :
            conc' = Leave([conc EXCEPT
                !.threads[t].result.commands.data = scaledCmds,
                !.threads[t].result.minX = box.minX,
                !.threads[t].result.minY = box.minY,
                !.threads[t].result.maxX = box.maxX,
                !.threads[t].result.maxY = box.maxY], t, s)
    /\ UNCHANGED << variationCall, pathArray, logging, validation, variant, handles, fontData, sharedFont, glyphHandle, call, probe,
                    first, subset >>

(***************************************************************************)
(* The subsetting plugin: nativeSubsetFont and its two variants read the   *)
(* input font, parse the glyph tokens, call perform_subsetting and write   *)
(* the subset font to the output path.  A font is its table directory, a   *)
(* sequence of (tag, size); a string is a tuple of one-character strings.  *)
(***************************************************************************)
HB_SUBSET_FLAGS_DEFAULT == {}
HB_SUBSET_FLAGS_NO_HINTING == "NO_HINTING"
HB_SUBSET_FLAGS_DESUBROUTINIZE == "DESUBROUTINIZE"
HB_SUBSET_FLAGS_GLYPH_NAMES == "GLYPH_NAMES"

Table(tag, size) == [tag |-> tag, size |-> size]

\* A hinted TrueType font, a CFF font and a font of outlines only.
HintedFont ==
    << Table("cvt ", 10), Table("fpgm", 40), Table("glyf", 900),
       Table("post", 30), Table("prep", 20) >>
CffFont == << Table("CFF ", 700), Table("post", 30) >>
BareFont == << Table("glyf", 500) >>
Fonts == { HintedFont, CffFont, BareFont }

\* hb_face_get_table_tags(face, start_offset, &table_count, table_tags):
\* at most table_count tags from start_offset on are returned, and
\* table_count becomes their number.
hb_face_get_table_tags(tables, start_offset, table_count) ==
    LET last == IF start_offset + table_count <= Len(tables)
                THEN start_offset + table_count ELSE Len(tables)
    IN  [i \in 1..(IF last > start_offset THEN last - start_offset ELSE 0) |->
            tables[start_offset + i].tag]

\* hb_face_reference_table + hb_blob_get_length
TableLength(tables, tag) ==
    IF \E i \in 1..Len(tables) : tables[i].tag = tag
    THEN tables[CHOOSE i \in 1..Len(tables) : tables[i].tag = tag].size
    ELSE 0

\* unsigned int table_count = 0;
TableCountArgument == 0

\* collect_font_metrics: the sizes of the tables whose tags the engine
\* returned.
collect_font_metrics(tables, data_size) ==
    LET table_tags == hb_face_get_table_tags(tables, 0, TableCountArgument)
        sizeOf(tag) == IF \E i \in 1..Len(table_tags) : table_tags[i] = tag
                       THEN TableLength(tables, tag) ELSE 0
    IN  [total_size |-> data_size, table_count |-> Len(table_tags),
         fpgm_size |-> sizeOf("fpgm"), prep_size |-> sizeOf("prep"),
         cvt_size |-> sizeOf("cvt "), post_size |-> sizeOf("post")]

\* FontMetrics::total_hinting_size
total_hinting_size(metrics) == metrics.fpgm_size + metrics.prep_size + metrics.cvt_size

\* Flags that keep the glyph names exactly when stripping is requested.
SubsetFlagsNamesNotInverted(strip_hinting, strip_glyph_names, metrics_before) ==
    (IF strip_hinting /\ total_hinting_size(metrics_before) > 0
     THEN {HB_SUBSET_FLAGS_NO_HINTING, HB_SUBSET_FLAGS_DESUBROUTINIZE} ELSE {})
    \cup (IF strip_glyph_names THEN {HB_SUBSET_FLAGS_GLYPH_NAMES} ELSE {})

\* The flags perform_subsetting hands to hb_subset_input_set_flags.
SubsetFlags(strip_hinting, strip_glyph_names, metrics_before) ==
    LET hinting == IF strip_hinting /\ total_hinting_size(metrics_before) > 0
                   THEN {HB_SUBSET_FLAGS_NO_HINTING, HB_SUBSET_FLAGS_DESUBROUTINIZE}
                   ELSE {}
        names == IF strip_glyph_names /\ metrics_before.post_size > 0 THEN {}
                 ELSE IF ~strip_glyph_names THEN {HB_SUBSET_FLAGS_GLYPH_NAMES}
                 ELSE {}
    IN  HB_SUBSET_FLAGS_DEFAULT \cup hinting \cup names

\* The character codes of the letters that occur in axis tags and in font
\* signatures.
CharCode(c) ==
    CASE c = "w" -> 119 [] c = "g" -> 103 [] c = "h" -> 104 [] c = "t" -> 116
      [] c = "F" -> 70 [] c = "I" -> 73 [] c = "L" -> 76
      [] c = "O" -> 79 [] c = "T" -> 84 [] c = "r" -> 114 [] c = "u" -> 117
      [] c = "e" -> 101 [] c = "2" -> 50 [] OTHER -> 63

AxisConfig(tag, remove) ==
    [tag |-> tag, min_value |-> 100, max_value |-> 700, default_value |-> 400,
     remove |-> remove]

\* The axis calls perform_subsetting makes: a configuration whose tag is
\* not four characters long is skipped, a removed axis is pinned to its
\* default, any other is limited to its range.
AxisCalls(axis_configs) ==
    LET valid == SelectSeq(axis_configs, LAMBDA axis : Len(axis.tag) = 4)
    IN  [i \in 1..Len(valid) |->
            [call |-> IF valid[i].remove THEN "hb_subset_input_pin_axis_to_default"
                      ELSE "hb_subset_input_set_axis_range",
             tag |-> HB_TAG([k \in 1..4 |-> CharCode(valid[i].tag[k])])]]

\* The steps of perform_subsetting at which the engine can fail.
SubsetFailures == {"none", "blob", "face", "input", "subset"}

NoFace == [face |-> FALSE, configured |-> FALSE, flags |-> {}, unicodes |-> {},
           axes |-> << >>, length |-> 0]

\* The size of the font the engine builds for a set of codepoints.
SubsetLength(unicodes) == 2 + Cardinality(unicodes)

\* perform_subsetting: null when the blob, the face, the subset input or
\* the subset operation fails, else the subset face.  configured tells
\* that the call got as far as hb_subset_input_set_flags.
perform_subsetting(tables, data_size, codepoints, axis_configs, strip_hinting, strip_glyph_names, failAt) ==
    IF failAt \in {"blob", "face"} THEN NoFace
    ELSE
    LET metrics_before == collect_font_metrics(tables, data_size) IN
    IF failAt = "input" THEN NoFace
    ELSE
    LET flags == SubsetFlags(strip_hinting, strip_glyph_names, metrics_before)
        unicodes == { codepoints[i] : i \in 1..Len(codepoints) }
        set == [NoFace EXCEPT !.configured = TRUE, !.flags = flags,
                              !.unicodes = unicodes,
                              !.axes = AxisCalls(axis_configs)]
    IN
    IF failAt = "subset" THEN set
    ELSE [set EXCEPT !.face = TRUE, !.length = SubsetLength(unicodes)]

\* The digits of UINT_MAX.
UINT_MAX_Digits == << 4, 2, 9, 4, 9, 6, 7, 2, 9, 5 >>

DigitOf(c) ==
    CASE c = "0" -> 0 [] c = "1" -> 1 [] c = "2" -> 2 [] c = "3" -> 3 [] c = "4" -> 4
      [] c = "5" -> 5 [] c = "6" -> 6 [] c = "7" -> 7 [] c = "8" -> 8 [] c = "9" -> 9

RECURSIVE SkipWhile(_, _)
\* The rest of the string after its leading characters from the set.
SkipWhile(chars, set) ==
    IF chars # << >> /\ Head(chars) \in set THEN SkipWhile(Tail(chars), set) ELSE chars

\* The decimal digits a string starts with.
LeadingDigits(chars) ==
    LET rest == SkipWhile(chars, {"0", "1", "2", "3", "4", "5", "6", "7", "8", "9"})
    IN  SubSeq(chars, 1, Len(chars) - Len(rest))

\* a <= b for two digit strings without leading zeros.
DigitsLe(a, b) ==
    \/ Len(a) < Len(b)
    \/ /\ Len(a) = Len(b)
       /\ \/ a = b
          \/ \E i \in 1..Len(a) : /\ a[i] < b[i]
                                  /\ \A j \in 1..(i - 1) : a[j] = b[j]

\* strtoul(glyph, &end_ptr, 10) on an unsigned decimal: leading white space
\* and a plus sign are skipped, then the digits are read.  end_ptr stays at
\* the start when there is no digit.
strtoul(chars) ==
    LET spaced == SkipWhile(chars, {" "})
        signed == IF spaced # << >> /\ Head(spaced) = "+" THEN Tail(spaced) ELSE spaced
        digits == LeadingDigits(signed)
        rest == SubSeq(signed, Len(digits) + 1, Len(signed))
        value == SkipWhile([i \in 1..Len(digits) |-> DigitOf(digits[i])], {0})
    IN  IF digits = << >> THEN [value |-> << >>, end_ptr |-> chars]
        ELSE [value |-> value, end_ptr |-> rest]

\* end_ptr != glyph.c_str() && *end_ptr == '\0' && codepoint <= UINT_MAX
IsCodepoint(chars) ==
    LET parsed == strtoul(chars)
    IN  /\ ~(parsed.end_ptr = chars)
        /\ parsed.end_ptr = << >>
        /\ DigitsLe(parsed.value, UINT_MAX_Digits)

\* The codepoints of the glyph list: the tokens that parse, in order.
ParseCodepoints(glyph_list) ==
    LET good == SelectSeq(glyph_list, IsCodepoint)
    IN  [i \in 1..Len(good) |-> strtoul(good[i]).value]

\* The output file: whether it exists, whether this library has opened it
\* for writing, the bytes it holds and the size of the font they belong to.
NoFile == [exists |-> FALSE, opened |-> FALSE, bytes |-> 0, of |-> 0]

\* write_font_file: fopen(path, "wb") empties the file, fwrite stores the
\* bytes it manages to write, and the result is whether that was all.
write_font_file(file, size, fopenOk, written) ==
    IF ~fopenOk THEN [file |-> file, ok |-> FALSE]
    ELSE [file |-> [exists |-> TRUE, opened |-> TRUE, bytes |-> written, of |-> size],
          ok |-> written = size]

NoSubset ==
    [op |-> "none", ret |-> FALSE, cause |-> "none", file |-> NoFile,
     strip_hinting |-> FALSE, strip_glyph_names |-> FALSE, tables |-> << >>,
     configured |-> FALSE, flags |-> {}, axes |-> << >>, codepoints |-> 0,
     axis_configs |-> << >>, reads |-> {}, face |-> FALSE]

\* The Java arrays of an entry point with axes: null, or the elements.
NullArray == [null |-> TRUE, elems |-> << >>]
JArray(elems) == [null |-> FALSE, elems |-> elems]
NoAxisArrays ==
    [tags |-> NullArray, mins |-> NullArray, maxs |-> NullArray,
     defaults |-> NullArray, removes |-> NullArray]

\* mins[i], maxs[i], defaults[i], removes[i] on the pointer the JVM handed
\* out: the element when there is one; past the end of the array the read
\* is outside the object and yields whatever lies there.
ReadElement(array, i, junk) ==
    IF i < Len(array.elems) THEN array.elems[i + 1] ELSE junk

\* The (array, index, length) of every element read in the loop over
\* axis_count = axis_tags.size() entries.
AxisReads(arrays) ==
    IF arrays.tags.null THEN {}
    ELSE { [array |-> name, index |-> i, length |-> Len(arrays[name].elems)] :
             name \in { n \in {"mins", "maxs", "defaults", "removes"} : ~arrays[n].null },
             i \in 0..(Len(arrays.tags.elems) - 1) }

\* if (axisTags != nullptr) { ... }: one AxisConfig per tag; a null value
\* array gives 0.0f or false.
BuildAxisConfigs(arrays, junk, junkRemove) ==
    IF arrays.tags.null THEN << >>
    ELSE [i \in 1..Len(arrays.tags.elems) |->
            [tag |-> arrays.tags.elems[i],
             min_value |-> IF arrays.mins.null THEN 0
                           ELSE ReadElement(arrays.mins, i - 1, junk),
             max_value |-> IF arrays.maxs.null THEN 0
                           ELSE ReadElement(arrays.maxs, i - 1, junk),
             default_value |-> IF arrays.defaults.null THEN 0
                               ELSE ReadElement(arrays.defaults, i - 1, junk),
             remove |-> IF arrays.removes.null THEN FALSE
                        ELSE ReadElement(arrays.removes, i - 1, junkRemove)]]

\* One subsetting call.  readable: read_font_file succeeds; failAt: the
\* engine step that fails; fopenOk, short: whether the output file opens
\* and how many bytes fwrite falls short.
SubsetCall(op, readable, tables, glyph_list, arrays, junk, junkRemove, strip_hinting, strip_glyph_names, failAt, fopenOk, short) ==
    /\ \E codepoints \in { ParseCodepoints(glyph_list) },
          axis_configs \in { BuildAxisConfigs(arrays, junk, junkRemove) } :
       \E entered \in { [NoSubset EXCEPT !.op = op, !.file = subset.file,
                            !.strip_hinting = strip_hinting,
                            !.strip_glyph_names = strip_glyph_names,
                            !.tables = tables,
                            !.axis_configs = axis_configs,
                            !.reads = AxisReads(arrays),
                            !.codepoints = Len(codepoints)] } :
         IF ~readable
         THEN subset' = [entered EXCEPT !.cause = "read", !.tables = << >>,
                                        !.codepoints = 0]
         ELSE IF codepoints = << >>
         THEN subset' = [entered EXCEPT !.cause = "codepoints"]
         ELSE \E subset_face \in { perform_subsetting(tables, Len(tables), codepoints,
                                        axis_configs, strip_hinting,
                                        strip_glyph_names, failAt) } :
              \E seen \in { [entered EXCEPT !.configured = subset_face.configured,
                                            !.face = subset_face.face,
                                            !.flags = subset_face.flags,
                                            !.axes = subset_face.axes] } :
                IF ~subset_face.face
                THEN subset' = [seen EXCEPT !.cause = "engine"]
                ELSE \E out \in { write_font_file(subset.file, subset_face.length, fopenOk,
                                      IF short >= subset_face.length THEN 0
                                      ELSE subset_face.length - short) } :
                       subset' = [seen EXCEPT !.file = out.file, !.ret = out.ok,
                                     !.cause = IF out.ok THEN "none"
                                               ELSE IF fopenOk THEN "write" ELSE "open"]
    /\ UNCHANGED << variationCall, pathArray, logging, validation, variant, handles, fontData, sharedFont, glyphHandle, call, probe,
                    first, conc >>

\* nativeSubsetFont: no axes, both strip flags on.
nativeSubsetFont(readable, tables, glyph_list, failAt, fopenOk, short) ==
    SubsetCall("nativeSubsetFont", readable, tables, glyph_list, NoAxisArrays, 0, FALSE,
               TRUE, TRUE, failAt, fopenOk, short)

\* nativeSubsetFontWithAxes: both strip flags on.
nativeSubsetFontWithAxes(readable, tables, glyph_list, arrays, junk, junkRemove, failAt, fopenOk, short) ==
    SubsetCall("nativeSubsetFontWithAxes", readable, tables, glyph_list, arrays, junk,
               junkRemove, TRUE, TRUE, failAt, fopenOk, short)

\* nativeSubsetFontWithAxesAndFlags
nativeSubsetFontWithAxesAndFlags(readable, tables, glyph_list, arrays, junk, junkRemove, stripHinting, stripGlyphNames, failAt, fopenOk, short) ==
    SubsetCall("nativeSubsetFontWithAxesAndFlags", readable, tables, glyph_list,
               arrays, junk, junkRemove, stripHinting, stripGlyphNames, failAt,
               fopenOk, short)

(***************************************************************************)
(* nativeValidateFont: the signature check on the first four bytes of a    *)
(* file.  A file is whether it opens and the bytes it holds.               *)
(***************************************************************************)
\* The bytes of a string literal.
Bytes(chars) == [i \in 1..Len(chars) |-> CharCode(chars[i])]

\* memcmp(a, b, n): 0 when the first n bytes agree, else the difference of
\* the first two that do not.
memcmp(a, b, n) ==
    IF \A i \in 1..n : a[i] = b[i] THEN 0
    ELSE LET k == CHOOSE i \in 1..n : a[i] # b[i] /\ \A j \in 1..(i - 1) : a[j] = b[j]
         IN  a[k] - b[k]

\* A check that compares the first three bytes of the header only.
ValidHeaderThreeBytes(header) ==
    \/ (header[1] = 0 /\ header[2] = 1 /\ header[3] = 0)
    \/ memcmp(header, Bytes(<<"O", "T", "T", "O">>), 3) = 0
    \/ memcmp(header, Bytes(<<"t", "r", "u", "e">>), 3) = 0
    \/ memcmp(header, Bytes(<<"w", "O", "F", "F">>), 3) = 0
    \/ memcmp(header, Bytes(<<"w", "O", "F", "2">>), 3) = 0

\* bool valid = (header[0] == 0x00 && ...) || (memcmp(header, "OTTO", 4) == 0) || ...
ValidHeader(header) ==
    \/ (header[1] = 0 /\ header[2] = 1 /\ header[3] = 0 /\ header[4] = 0)
    \/ memcmp(header, Bytes(<<"O", "T", "T", "O">>), 4) = 0
    \/ memcmp(header, Bytes(<<"t", "r", "u", "e">>), 4) = 0
    \/ memcmp(header, Bytes(<<"w", "O", "F", "F">>), 4) = 0
    \/ memcmp(header, Bytes(<<"w", "O", "F", "2">>), 4) = 0

NoValidation ==
    [op |-> "none", openable |-> FALSE, bytes |-> << >>, read |-> 0, ret |-> FALSE]

\* nativeValidateFont on a file; got is what fread(header, 1, 4, file)
\* returns, at most the bytes there are.
nativeValidateFont(openable, bytes, got) ==
    /\ got <= Len(bytes)
    /\ validation' =
          [op |-> "nativeValidateFont", openable |-> openable,
           bytes |-> IF openable THEN bytes ELSE << >>,
           read |-> IF openable THEN got ELSE 0,
           ret |-> IF ~openable THEN FALSE
                   ELSE IF got # 4 THEN FALSE
                   ELSE ValidHeader(SubSeq(bytes, 1, got))]
    /\ UNCHANGED << variationCall, pathArray, logging, variant, handles, fontData, sharedFont,
                    glyphHandle, call, probe, first, conc, subset >>

(***************************************************************************)
(* PathCommandArray used directly: construction, then push_back, reserve   *)
(* and clear in any order, every allocation succeeding or failing.  The    *)
(* n-th command pushed carries n, so that the stored commands tell which   *)
(* pushes were kept and in which order.                                    *)
(***************************************************************************)
MaxPushes == 34
MaxAllocs == 3
ReserveSizes == {1, 40}

\* The n-th command handed to push_back.
NthCommand(n) == MakeCommand(MOVE_TO, <<n, 0>>, 0)

\* The plan under which the array's next allocation has the given outcome.
PlanFor(arr, allocOk) == [i \in 1..(arr.allocs + 1) |-> allocOk]

\* pushed: the commands handed to push_back since the last clear; count:
\* the push_back calls so far; allocOk: whether the allocator would satisfy
\* a request made during the last call; failures: the allocations that have
\* failed so far; dropped: the push_back calls whose allocation failed.
NoBuffer ==
    [op |-> "none", arr |-> EmptyArray, pushed |-> << >>, count |-> 0,
     allocOk |-> TRUE, failures |-> 0, dropped |-> 0]

\* The call from before to after requested a block and the allocator
\* refused it.
AllocationFailed(before, after, allocOk) ==
    after.allocs > before.allocs /\ ~allocOk

\* The array after a call, with the bookkeeping of the call.
BufferAfter(op, after, pushed, count, allocOk) ==
    LET failed == AllocationFailed(pathArray.arr, after, allocOk)
    IN  [op |-> op, arr |-> after, pushed |-> pushed, count |-> count,
         allocOk |-> allocOk,
         failures |-> pathArray.failures + (IF failed THEN 1 ELSE 0),
         dropped |-> pathArray.dropped
                       + (IF failed /\ op = "push_back" THEN 1 ELSE 0)]

\* PathCommandArray::PathCommandArray
Array_construct(allocOk) ==
    /\ pathArray.op = "none"
    /\ pathArray' = BufferAfter("PathCommandArray", NewArray(variant, <<allocOk>>),
                             << >>, 0, allocOk)
    /\ UNCHANGED << variationCall, logging, validation, variant, handles, fontData, sharedFont,
                    glyphHandle, call, probe, first, conc, subset >>

\* PathCommandArray::push_back of the next command
Array_push_back(allocOk) ==
    /\ pathArray.op # "none"
    /\ pathArray.count < MaxPushes
    /\ pathArray.arr.allocs < MaxAllocs
    /\ LET cmd == NthCommand(pathArray.count + 1)
       IN  pathArray' = BufferAfter("push_back",
                         push_back(variant, pathArray.arr, cmd, PlanFor(pathArray.arr, allocOk)),
                         Append(pathArray.pushed, cmd), pathArray.count + 1, allocOk)
    /\ UNCHANGED << variationCall, logging, validation, variant, handles, fontData, sharedFont,
                    glyphHandle, call, probe, first, conc, subset >>

\* PathCommandArray::reserve(new_capacity)
Array_reserve(new_capacity, allocOk) ==
    /\ pathArray.op # "none"
    /\ pathArray.arr.allocs < MaxAllocs
    /\ pathArray' = BufferAfter("reserve",
                     reserve(pathArray.arr, new_capacity, PlanFor(pathArray.arr, allocOk)),
                     pathArray.pushed, pathArray.count, allocOk)
    /\ UNCHANGED << variationCall, logging, validation, variant, handles, fontData, sharedFont,
                    glyphHandle, call, probe, first, conc, subset >>

\* PathCommandArray::clear: size = 0
Array_clear ==
    /\ pathArray.op # "none"
    /\ pathArray' = BufferAfter("clear", [pathArray.arr EXCEPT !.data = << >>], << >>,
                             pathArray.count, pathArray.allocOk)
    /\ UNCHANGED << variationCall, logging, validation, variant, handles, fontData, sharedFont,
                    glyphHandle, call, probe, first, conc, subset >>

(***************************************************************************)
(* The logging globals g_jvm, g_logger and g_logMethod.  One thread runs   *)
(* JNI_OnLoad, nativeSetLogger and JNI_OnUnload, another runs log_message; *)
(* each statement that reads or writes a global is a step of its own, as   *)
(* nothing orders the two threads.  A global reference is a number, 0 is   *)
(* nullptr.                                                                *)
(***************************************************************************)
MaxRefs == 2
Refs == 1..MaxRefs

\* invoked: the globals as the last CallVoidMethod found them; fault: a
\* call through g_jvm while it was null; last: whether the last finished
\* log_message attached the thread and whether it detached it.
NoLogging ==
    [g_jvm |-> FALSE, g_logger |-> 0, g_logMethod |-> FALSE,
     refs |-> [r \in Refs |-> "unused"],
     control |-> [pc |-> "idle", logger |-> FALSE],
     log |-> [pc |-> "idle", attached |-> FALSE],
     invoked |-> [happened |-> FALSE, g_jvm |-> FALSE, g_logger |-> 0,
                  g_logMethod |-> FALSE, ref |-> "null"],
     fault |-> FALSE,
     last |-> [attached |-> FALSE, detached |-> FALSE]]

\* env->DeleteGlobalRef(ref)
DeleteGlobalRef(refs, ref) ==
    [refs EXCEPT ![ref] = IF @ = "live" THEN "deleted" ELSE "deleted_twice"]

\* A step that changes the logging state only.
LoggingStep(next) ==
    /\ logging' = next
    /\ UNCHANGED << variationCall, pathArray, validation, variant, handles, fontData,
                    sharedFont, glyphHandle, call, probe, first, conc, subset >>

ControlAt(pc) == logging.control.pc = pc
LogAt(pc) == logging.log.pc = pc

\* JNI_OnLoad: g_jvm = vm
JNI_OnLoad ==
    /\ ControlAt("idle") /\ ~logging.g_jvm
    /\ LoggingStep([logging EXCEPT !.g_jvm = TRUE])

\* nativeSetLogger(logger), up to DeleteGlobalRef(g_logger).
nativeSetLogger(logger) ==
    /\ ControlAt("idle") /\ logging.g_jvm
    /\ logger => \E r \in Refs : logging.refs[r] = "unused"
    /\ LoggingStep(
          IF logging.g_logger # 0
          THEN [logging EXCEPT !.refs = DeleteGlobalRef(@, logging.g_logger),
                               !.control = [pc |-> "set_clear_logger", logger |-> logger]]
          ELSE [logging EXCEPT !.control = [pc |-> IF logger THEN "set_new" ELSE "idle",
                                            logger |-> logger]])

\* nativeSetLogger: g_logger = nullptr
nativeSetLogger_clearLogger ==
    /\ ControlAt("set_clear_logger")
    /\ LoggingStep([logging EXCEPT !.g_logger = 0, !.control.pc = "set_clear_method"])

\* nativeSetLogger: g_logMethod = nullptr
nativeSetLogger_clearMethod ==
    /\ ControlAt("set_clear_method")
    /\ LoggingStep([logging EXCEPT !.g_logMethod = FALSE,
                      !.control.pc = IF logging.control.logger THEN "set_new" ELSE "idle"])

\* nativeSetLogger: g_logger = env->NewGlobalRef(logger)
nativeSetLogger_newRef ==
    /\ ControlAt("set_new")
    /\ LET r == CHOOSE x \in Refs : logging.refs[x] = "unused"
                                     /\ \A y \in Refs : logging.refs[y] = "unused" => x <= y
       IN  LoggingStep([logging EXCEPT !.g_logger = r, !.refs[r] = "live",
                                      !.control.pc = "set_method"])

\* nativeSetLogger: g_logMethod = env->GetMethodID(...), which is null when
\* the class has no such method; init_logging then stores the three values
\* the globals already hold.
nativeSetLogger_method(found) ==
    /\ ControlAt("set_method")
    /\ LoggingStep([logging EXCEPT !.g_logMethod = found, !.control.pc = "idle"])

\* JNI_OnUnload: cleanup_logging up to DeleteGlobalRef(g_logger), which it
\* reaches when g_logger is set and GetEnv succeeds.
JNI_OnUnload(getEnvOk) ==
    /\ ControlAt("idle") /\ logging.g_jvm
    /\ LoggingStep(
          IF logging.g_logger # 0 /\ getEnvOk
          THEN [logging EXCEPT !.refs = DeleteGlobalRef(@, logging.g_logger),
                               !.control.pc = "unload_clear_logger"]
          ELSE [logging EXCEPT !.control.pc = "unload_clear_method"])

\* cleanup_logging: g_logger = nullptr
cleanup_logging_clearLogger ==
    /\ ControlAt("unload_clear_logger")
    /\ LoggingStep([logging EXCEPT !.g_logger = 0, !.control.pc = "unload_clear_method"])

\* cleanup_logging: g_logMethod = nullptr
cleanup_logging_clearMethod ==
    /\ ControlAt("unload_clear_method")
    /\ LoggingStep([logging EXCEPT !.g_logMethod = FALSE, !.control.pc = "unload_clear_jvm"])

\* JNI_OnUnload: g_jvm = nullptr
JNI_OnUnload_clearJvm ==
    /\ ControlAt("unload_clear_jvm")
    /\ LoggingStep([logging EXCEPT !.g_jvm = FALSE, !.control.pc = "idle"])

\* log_message: if (g_jvm == nullptr || g_logger == nullptr || g_logMethod
\* == nullptr) return
log_message ==
    /\ LogAt("idle")
    /\ LoggingStep(
          IF ~logging.g_jvm \/ logging.g_logger = 0 \/ ~logging.g_logMethod
          THEN [logging EXCEPT !.last = [attached |-> FALSE, detached |-> FALSE]]
          ELSE [logging EXCEPT !.log = [pc |-> "getenv", attached |-> FALSE]])

GetEnvResults == {"JNI_OK", "JNI_EDETACHED", "JNI_EDETACHED_attach_fails", "JNI_ERR"}

\* log_message: g_jvm->GetEnv and, for a detached thread,
\* g_jvm->AttachCurrentThread
log_message_getEnv(result) ==
    /\ LogAt("getenv")
    /\ LoggingStep(
          IF ~logging.g_jvm
          THEN [logging EXCEPT !.fault = TRUE, !.log.pc = "idle",
                               !.last = [attached |-> FALSE, detached |-> FALSE]]
          ELSE IF result = "JNI_OK"
          THEN [logging EXCEPT !.log = [pc |-> "call", attached |-> FALSE]]
          ELSE IF result = "JNI_EDETACHED"
          THEN [logging EXCEPT !.log = [pc |-> "call", attached |-> TRUE]]
          ELSE [logging EXCEPT !.log.pc = "idle",
                               !.last = [attached |-> FALSE, detached |-> FALSE]])

\* log_message: env->CallVoidMethod(g_logger, g_logMethod, level, jmessage)
log_message_call ==
    /\ LogAt("call")
    /\ LoggingStep(
          [logging EXCEPT
             !.invoked = [happened |-> TRUE, g_jvm |-> logging.g_jvm,
                          g_logger |-> logging.g_logger,
                          g_logMethod |-> logging.g_logMethod,
                          ref |-> IF logging.g_logger = 0 THEN "null"
                                  ELSE logging.refs[logging.g_logger]],
             !.log.pc = "detach"])

\* log_message: if (attached) g_jvm->DetachCurrentThread()
log_message_detach ==
    /\ LogAt("detach")
    /\ LoggingStep(
          [logging EXCEPT
             !.fault = @ \/ (logging.log.attached /\ ~logging.g_jvm),
             !.last = [attached |-> logging.log.attached,
                       detached |-> logging.log.attached],
             !.log = [pc |-> "idle", attached |-> FALSE]])

(***************************************************************************)
(* nativeExtractPathN: from the two Java arrays to the hb_variation_t      *)
(* array the engine receives.  Every access to an array is recorded as     *)
(* (array, index, length).                                                 *)
(***************************************************************************)
MaxTags == 18

\* A count used as it is.
CountUnclamped(library, count) == count

\* tagCount > 4 ? 4 : tagCount, variationCount > 4 ? 4 : variationCount (16
\* in the runtime library)
ClampCount(library, count) ==
    IF count > MaxVariations(library) THEN MaxVariations(library) ELSE count

Access(array, index, length) == [array |-> array, index |-> index, length |-> length]

\* The entry point: Variation variations[N], filled from the arrays when
\* both are given and of the same non-zero length.
ParseVariations(tags, values) ==
    LET usable == /\ ~tags.null /\ ~values.null
                  /\ Len(tags.elems) = Len(values.elems) /\ Len(tags.elems) > 0
        variationCount == IF usable THEN ClampCount(variant, Len(tags.elems)) ELSE 0
    IN  [variationCount |-> variationCount,
         variations |-> [i \in 1..variationCount |->
                           [tag |-> intToTag(tags.elems[i]), value |-> values.elems[i]]],
         accesses |-> UNION { { Access("tags", i, Len(tags.elems)),
                                Access("values", i, Len(values.elems)),
                                Access("variations", i, MaxVariations(variant)) } :
                              i \in 0..(variationCount - 1) }]

\* The extractor: hb_variation_t hb_variations[N], filled from the first
\* actual_count entries of the caller's array (of the given length) and
\* handed to hb_font_set_variations; nullptr and 0 without variations.
SetVariations(variations, variationCount, length) ==
    IF variationCount > 0
    THEN LET actual_count == ClampCount(variant, variationCount)
         IN  [handed |-> HbVariations(variations, actual_count),
              accesses |-> UNION { { Access("variations", i, length),
                                     Access("hb_variations", i, MaxVariations(variant)) } :
                                   i \in 0..(actual_count - 1) }]
    ELSE [handed |-> << >>, accesses |-> {}]

NoVariationCall ==
    [op |-> "none", tags |-> NullArray, values |-> NullArray, handed |-> << >>,
     accesses |-> {}]

\* The variations of one nativeExtractPathN call, from the arguments to
\* the engine.
nativeExtractPathN_variations(tags, values) ==
    /\ LET parsed == ParseVariations(tags, values)
           set == SetVariations(parsed.variations, parsed.variationCount,
                                MaxVariations(variant))
       IN  variationCall' = [op |-> "nativeExtractPathN", tags |-> tags, values |-> values,
                             handed |-> set.handed,
                             accesses |-> parsed.accesses \cup set.accesses]
    /\ UNCHANGED << pathArray, logging, validation, variant, handles, fontData,
                    sharedFont, glyphHandle, call, probe, first, conc, subset >>

(***************************************************************************)
(* Specifications.                                                         *)
(*   Spec         the lifetime of handles: create, extract, destroy, in    *)
(*                any order, on a few extraction inputs and a face of      *)
(*                1000 units per em;                                       *)
(*   SpecExtract  serial extractions on one initialised session, on all    *)
(*                extraction inputs and both values of units per em;       *)
(*   SpecRepeat   serial extractions on one initialised session that       *)
(*                remember the first result for chosen arguments;          *)
(*   SpecConcurrent  two callers, one extraction each, on initialised      *)
(*                sessions under each of the three disciplines;            *)
(*   SpecSubset   calls of the three subsetting entry points on one        *)
(*                output path;                                             *)
(*   SpecValidate calls of nativeValidateFont on files with known          *)
(*                signatures, near misses and short files.                 *)
(***************************************************************************)
NoProbe == [codepoint |-> 0, variations |-> << >>]

\* Every library starts with no handle and an unused GlyphHandle.
Init ==
    /\ variant \in Variants
    /\ handles = [a \in Addresses |-> "unallocated"]
    /\ fontData = [a \in Addresses |-> "none"]
    /\ sharedFont = [a \in Addresses |-> NewSession]
    /\ glyphHandle = NewSession
    /\ call = NoCall
    /\ probe = NoProbe
    /\ first = None
    /\ conc = NoConc
    /\ subset = NoSubset
    /\ validation = NoValidation
    /\ pathArray = NoBuffer
    /\ logging = NoLogging
    /\ variationCall = NoVariationCall

Pointers == {NULL} \cup Addresses

\* nativeCreateFontHandle on every kind of byte array and every outcome of
\* its allocations and of initialize, the face reporting one of upems.
CreateOn(upems) ==
    \E bytes \in {"null", "empty", "font"} :
      \E mallocOk \in (IF bytes = "font" THEN BOOLEAN ELSE {TRUE}) :
        \E elementsOk \in (IF mallocOk THEN BOOLEAN ELSE {TRUE}) :
          LET accepted == bytes = "font" /\ mallocOk /\ elementsOk
          IN  \E addr \in (IF accepted THEN Addresses ELSE {1}),
                 failAt \in (IF accepted THEN InitFailures ELSE {"none"}),
                 engineUpem \in (IF accepted THEN upems ELSE {0}) :
                nativeCreateFontHandle(bytes, mallocOk, elementsOk, addr, failAt, engineUpem)

Destroy ==
    \E ptr \in Pointers, seesFontData \in BOOLEAN, seesSharedFont \in BOOLEAN :
        nativeDestroyFontHandle(ptr, seesFontData, seesSharedFont)

\* nativeExtractPath0..3 on the inputs drawn from the given sets.  chance
\* decides both what packing's allocations do and what a deleted handle
\* happens to give back.
ExtractFixedOn(ptrs, codepoints, lists, plans, junks, chances) ==
    \E ptr \in ptrs, codepoint \in codepoints, tagged \in lists,
       plan \in plans, junk \in junks, chance \in chances :
        nativeExtractPathFixed(ptr, codepoint, tagged, plan, junk, chance, chance)

\* nativeExtractPathN on the inputs drawn from the given sets; the value
\* array is the tags' or one shorter.
ExtractNOn(ptrs, codepoints, lists, plans, junks, chances) ==
    \E ptr \in ptrs, codepoint \in codepoints, tagged \in lists, dropValue \in BOOLEAN,
       plan \in plans, junk \in junks, chance \in chances :
        LET tags == [i \in 1..Len(tagged) |-> tagged[i].tag]
            all == [i \in 1..Len(tagged) |-> tagged[i].value]
            values == IF dropValue /\ all # << >> THEN Tail(all) ELSE all
        IN  nativeExtractPathN(ptr, codepoint, tags, values, plan, junk, chance, chance)

GHInitialize ==
    \E hasData \in BOOLEAN, cp \in Codepoints, failAt \in InitFailures,
       engineUpem \in UpemValues :
        GlyphHandle_initialize(hasData, cp, failAt, engineUpem)

GHExtractOn(lists, plans, junks) ==
    \E tagged \in lists, plan \in plans, junk \in junks :
        GlyphHandle_extractPath(tagged, plan, junk)

FewCodepoints == {65, 9}
FewVariations == { << >>, << VarFill >> }
\* The extractions of the lifetime specification: every allocation succeeds,
\* or the first one fails.
FewPlans == { [i \in 1..AllocPlanLen |-> TRUE], [i \in 1..AllocPlanLen |-> i > 1] }

Next ==
    \/ CreateOn({1000})
    \/ Destroy
    \/ ExtractFixedOn(Pointers, FewCodepoints, FewVariations, FewPlans, {9999}, BOOLEAN)
    \/ ExtractNOn(Pointers, FewCodepoints, FewVariations, FewPlans, {9999}, BOOLEAN)
    \/ GHInitialize
    \/ GlyphHandle_destroy
    \/ GHExtractOn(FewVariations, FewPlans, {9999})

Spec == Init /\ [][Next]_vars

\* One session, successfully initialised: a live handle over its
\* SharedFontData (compose) or an initialised GlyphHandle (runtime).
OneSession(engineUpem, cp) ==
    /\ variant \in Variants
    /\ handles = [a \in Addresses |->
                    IF a = 1 /\ variant = "compose" THEN "live" ELSE "unallocated"]
    /\ fontData = [a \in Addresses |->
                    IF a = 1 /\ variant = "compose" THEN "live" ELSE "none"]
    /\ sharedFont = [a \in Addresses |->
                    IF a = 1 /\ variant = "compose"
                    THEN initialize("compose", NewSession, TRUE, 1, 0, "none", engineUpem).s
                    ELSE NewSession]
    /\ glyphHandle = IF variant = "runtime"
                     THEN initialize("runtime", NewSession, TRUE, 1, cp, "none", engineUpem).s
                     ELSE NewSession
    /\ call = NoCall
    /\ first = None
    /\ conc = NoConc
    /\ subset = NoSubset
    /\ validation = NoValidation
    /\ pathArray = NoBuffer
    /\ logging = NoLogging
    /\ variationCall = NoVariationCall

InitExtract ==
    /\ \E engineUpem \in UpemValues, cp \in {65, 66, 32} : OneSession(engineUpem, cp)
    /\ probe = NoProbe

NextExtract ==
    \/ ExtractFixedOn({1}, Codepoints, FixedVariations, AllocPlans, JunkValues, BOOLEAN)
    \/ ExtractNOn({1}, Codepoints, ManyVariations, AllocPlans, JunkValues, BOOLEAN)
    \/ GHExtractOn(FixedVariations \cup ManyVariations, AllocPlans, JunkValues)
    \/ \E allocOk \in BOOLEAN : packExtracted(allocOk)

SpecExtract == InitExtract /\ [][NextExtract]_vars

\* The arguments whose first result a run of repeated extractions remembers.
Probes ==
    { [codepoint |-> 65, variations |-> << >>],
      [codepoint |-> 65, variations |-> ToVariations(<< VarWght, VarFill >>)],
      [codepoint |-> 66, variations |-> << >>] }

RepeatVariations == { << >>, << VarFill >>, << VarWght, VarFill >> }

InitRepeat ==
    /\ \E cp \in {65, 66} : OneSession(1000, cp)
    /\ probe \in Probes

NextRepeat ==
    \/ ExtractFixedOn({1}, {65, 66}, RepeatVariations, AllocPlans, {9999}, {TRUE})
    \/ ExtractNOn({1}, {65, 66}, RepeatVariations, AllocPlans, {9999}, {TRUE})
    \/ GHExtractOn(RepeatVariations, AllocPlans, {9999})

SpecRepeat == InitRepeat /\ [][NextRepeat]_vars

\* Two live handles of compose-glyphs over initialised sessions, and the
\* discipline the two callers follow.
InitConcurrent ==
    /\ variant = "compose"
    /\ handles = [a \in Addresses |-> IF a \in Threads THEN "live" ELSE "unallocated"]
    /\ fontData = [a \in Addresses |-> IF a \in Threads THEN "live" ELSE "none"]
    /\ sharedFont = [a \in Addresses |->
                    IF a \in Threads
                    THEN initialize("compose", NewSession, TRUE, 1, 0, "none", 1000).s
                    ELSE NewSession]
    /\ glyphHandle = NewSession
    /\ call = NoCall
    /\ probe = NoProbe
    /\ first = None
    /\ \E discipline \in Disciplines : conc = [NoConc EXCEPT !.discipline = discipline]
    /\ subset = NoSubset
    /\ validation = NoValidation
    /\ pathArray = NoBuffer
    /\ logging = NoLogging
    /\ variationCall = NoVariationCall

NextConcurrent ==
    \E t \in Threads :
        \/ \E args \in ConcurrentCalls : ExtractBegin(t, args)
        \/ ExtractSetVariations(t)
        \/ ExtractClear(t)
        \/ ExtractAdd(t)
        \/ ExtractShape(t)
        \/ ExtractGlyphInfos(t)
        \/ ExtractAdvance(t)
        \/ ExtractDraw(t, 9999)
        \/ ExtractScale(t)

SpecConcurrent == InitConcurrent /\ [][NextConcurrent]_vars

\* Glyph tokens as the plugin passes them: decimal codepoints, and tokens
\* that do not parse.
GlyphLists ==
    { << <<"6", "5">> >>,
      << <<"6", "5">>, <<"x">>, <<" ", "+", "6", "6">> >>,
      << << >>, <<"6", "x">> >>,
      << <<"4", "2", "9", "4", "9", "6", "7", "2", "9", "6">> >> }

AxisConfigLists ==
    { << >>,
      << AxisConfig(<<"w", "g", "h", "t">>, FALSE), AxisConfig(<<"F", "I", "L", "L">>, TRUE) >>,
      << AxisConfig(<<"w", "g">>, FALSE) >> }

\* The five arrays a caller builds from a list of axis configurations.
ArraysOf(configs) ==
    [tags |-> JArray([i \in 1..Len(configs) |-> configs[i].tag]),
     mins |-> JArray([i \in 1..Len(configs) |-> configs[i].min_value]),
     maxs |-> JArray([i \in 1..Len(configs) |-> configs[i].max_value]),
     defaults |-> JArray([i \in 1..Len(configs) |-> configs[i].default_value]),
     removes |-> JArray([i \in 1..Len(configs) |-> configs[i].remove])]

\* The array without its last element.
Shorter(array) == JArray(SubSeq(array.elems, 1, Len(array.elems) - 1))

\* Arrays of equal lengths, and arrays a caller got wrong: value arrays
\* shorter than the tag array, or left out.
MatchingArrays == { ArraysOf(configs) : configs \in AxisConfigLists \ {<< >>} }
ShortArrays ==
    { [a EXCEPT !.mins = Shorter(@)] : a \in { m \in MatchingArrays : Len(m.tags.elems) > 1 } }
    \cup { [a EXCEPT !.removes = Shorter(@), !.maxs = NullArray] :
              a \in { m \in MatchingArrays : Len(m.tags.elems) > 1 } }

\* What a read past the end of a float array may find.
JunkReads == {0, 9999}

\* Bytes by which fwrite may fall short of the font.
ShortWrites == {0, 1}

InitSubset ==
    /\ Init
    /\ variant = "compose"

\* A list whose tokens all parse and a list without any token that does.
FewGlyphLists == { << <<"6", "5">> >>, << << >>, <<"6", "x">> >> }

NextSubset ==
    \E readable \in BOOLEAN, failAt \in SubsetFailures, fopenOk \in BOOLEAN,
       short \in ShortWrites :
        \/ \E tables \in Fonts, glyph_list \in GlyphLists :
              nativeSubsetFont(readable, tables, glyph_list, failAt, fopenOk, short)
        \/ \E glyph_list \in FewGlyphLists, arrays \in {NoAxisArrays} \cup MatchingArrays :
              nativeSubsetFontWithAxes(readable, HintedFont, glyph_list, arrays, 0,
                                       FALSE, failAt, fopenOk, short)
        \/ \E glyph_list \in FewGlyphLists, arrays \in ShortArrays,
              junk \in JunkReads, junkRemove \in BOOLEAN :
              nativeSubsetFontWithAxes(readable, HintedFont, glyph_list, arrays, junk,
                                       junkRemove, failAt, fopenOk, short)
        \/ \E tables \in Fonts, glyph_list \in FewGlyphLists,
              arrays \in MatchingArrays, stripHinting, stripGlyphNames \in BOOLEAN :
              nativeSubsetFontWithAxesAndFlags(readable, tables, glyph_list, arrays, 0,
                                               FALSE, stripHinting, stripGlyphNames,
                                               failAt, fopenOk, short)

SpecSubset == InitSubset /\ [][NextSubset]_vars

\* The signatures the plugin accepts.
KnownSignatures ==
    { << 0, 1, 0, 0 >>, << 79, 84, 84, 79 >>, << 116, 114, 117, 101 >>,
      << 119, 79, 70, 70 >>, << 119, 79, 70, 50 >> }

\* A signature with one byte changed.
NearMisses ==
    { [s EXCEPT ![i] = b] : s \in KnownSignatures, i \in 1..4, b \in {1, 79} }
    \ KnownSignatures

\* Files: a known signature or a near miss, alone or followed by a byte,
\* and every beginning of a known signature.
ValidateFiles ==
    KnownSignatures \cup NearMisses
    \cup { Append(s, 0) : s \in KnownSignatures \cup NearMisses }
    \cup { SubSeq(s, 1, n) : s \in KnownSignatures, n \in 0..3 }

InitValidate ==
    /\ Init
    /\ variant = "compose"

NextValidate ==
    \E openable \in BOOLEAN, bytes \in ValidateFiles, got \in 0..4 :
        nativeValidateFont(openable, bytes, got)

SpecValidate == InitValidate /\ [][NextValidate]_vars

\* The array of either library under every order of calls and every
\* allocation outcome.
InitArray == Init

NextArray ==
    \/ \E allocOk \in BOOLEAN : Array_construct(allocOk)
    \/ \E allocOk \in BOOLEAN : Array_push_back(allocOk)
    \/ \E new_capacity \in ReserveSizes, allocOk \in BOOLEAN :
          Array_reserve(new_capacity, allocOk)
    \/ Array_clear

SpecArray == InitArray /\ [][NextArray]_vars

\* nativeExtractPathN on tag and value arrays of every length up to
\* MaxTags, given or null, in either library.
TagRun == [i \in 1..MaxTags |-> IF i % 2 = 1 THEN AxisTags.wght ELSE AxisTags.FILL]
ValueRun == [i \in 1..MaxTags |-> 100 * i]
TagArrays == {NullArray} \cup { JArray(SubSeq(TagRun, 1, n)) : n \in 0..MaxTags }
ValueArrays == {NullArray} \cup { JArray(SubSeq(ValueRun, 1, n)) : n \in 0..MaxTags }

InitVariations == Init

NextVariations ==
    \E tags \in TagArrays, values \in ValueArrays : nativeExtractPathN_variations(tags, values)

SpecVariations == InitVariations /\ [][NextVariations]_vars

\* The logging globals under every interleaving of the thread that loads,
\* sets the logger and unloads with the thread that logs.
InitLogging ==
    /\ Init
    /\ variant = "compose"

NextLogging ==
    \/ JNI_OnLoad
    \/ \E logger \in BOOLEAN : nativeSetLogger(logger)
    \/ nativeSetLogger_clearLogger
    \/ nativeSetLogger_clearMethod
    \/ nativeSetLogger_newRef
    \/ \E found \in BOOLEAN : nativeSetLogger_method(found)
    \/ \E getEnvOk \in BOOLEAN : JNI_OnUnload(getEnvOk)
    \/ cleanup_logging_clearLogger
    \/ cleanup_logging_clearMethod
    \/ JNI_OnUnload_clearJvm
    \/ log_message
    \/ \E result \in GetEnvResults : log_message_getEnv(result)
    \/ log_message_call
    \/ log_message_detach

SpecLogging == InitLogging /\ [][NextLogging]_vars

(***************************************************************************)
(* Properties.                                                             *)
(***************************************************************************)
Objects == << "blob", "face", "font", "buffer", "draw_funcs" >>
CreateEvent ==
    [blob |-> "hb_blob_create", face |-> "hb_face_create", font |-> "hb_font_create",
     buffer |-> "hb_buffer_create", draw_funcs |-> "hb_draw_funcs_create"]
ReleaseEvent ==
    [blob |-> "hb_blob_destroy", face |-> "hb_face_destroy", font |-> "hb_font_destroy",
     buffer |-> "hb_buffer_destroy", draw_funcs |-> "hb_draw_funcs_destroy"]
CreateEvents == { CreateEvent[o] : o \in DOMAIN CreateEvent }
ReleaseEvents == { ReleaseEvent[o] : o \in DOMAIN ReleaseEvent }

IsCreate(e) == e \in CreateEvents
IsRelease(e) == e \in ReleaseEvents
\* The engine objects a call created, and those it released, in order.
Creates(events) == SelectSeq(events, IsCreate)
Releases(events) == SelectSeq(events, IsRelease)
\* The objects a session holds, in the order initialize creates them.
HeldBy(s) == LET held(o) == s[o] IN SelectSeq(Objects, held)
\* The release events of the given objects, last object first.
ReverseReleaseOf(objs) == Reverse([i \in 1..Len(objs) |-> ReleaseEvent[objs[i]]])
\* The objects whose creation events are listed.
CreatedBy(creates) ==
    [i \in 1..Len(creates) |-> CHOOSE o \in DOMAIN CreateEvent : CreateEvent[o] = creates[i]]

JniExtractOps == {"extract", "extractN"}
\* The last call was an extraction that ran on a live session.
ExtractedLive ==
    \/ call.op \in JniExtractOps /\ call.before = "live"
    \/ call.op = "gh_extract"

\* What a caller can see of a GlyphPath: the commands with the slots their
\* type uses, and the numeric fields.
Visible(cmd) == [type |-> cmd.type, f |-> SubSeq(cmd.f, 1, UsedSlots(cmd.type))]
Contents(path) ==
    [commands |-> [i \in 1..Len(path.commands.data) |-> Visible(path.commands.data[i])],
     advanceWidth |-> path.advanceWidth, unitsPerEm |-> path.unitsPerEm,
     minX |-> path.minX, minY |-> path.minY, maxX |-> path.maxX, maxY |-> path.maxY]

\* The x (odd slots) and y (even slots) coordinates the stored commands use.
UsedX(cmds) ==
    { cmds[i].f[k] : <<i, k>> \in { p \in (DOMAIN cmds) \X {1, 3, 5} :
                                        p[2] <= UsedSlots(cmds[p[1]].type) } }
UsedY(cmds) ==
    { cmds[i].f[k] : <<i, k>> \in { p \in (DOMAIN cmds) \X {2, 4, 6} :
                                        p[2] <= UsedSlots(cmds[p[1]].type) } }
\* lo and hi are the least and the greatest element of the set of floats.
IsMinOf(lo, S) == lo \in S /\ \A x \in S : FLe(lo, x)
IsMaxOf(hi, S) == hi \in S /\ \A x \in S : FLe(x, hi)

\* C1: nativeCreateFontHandle returns a non-zero handle only if
\* SharedFontData::initialize succeeded; when initialize fails, creation
\* returns 0 and exposes no session.
C1_CreationAtomic ==
    (call.op = "create" /\ call.ret # NULL) => call.initOk

\* C2: nativeDestroyFontHandle on a handle that was already destroyed does
\* nothing: it reads no field of the released handle and frees nothing.
C2_DoubleDestroyNoOp ==
    (call.op = "destroy" /\ call.before = "freed") => call.events = << >>

\* C3: when a session is destroyed, every engine object it holds is
\* released before the raw font bytes are freed.
C3_EngineReleasedBeforeBytes ==
    (call.op = "destroy" /\ call.before = "live") =>
        \A i, j \in DOMAIN call.events :
            (call.events[i] = "free_fontData" /\ IsRelease(call.events[j])) => j < i

\* C4: initialize creates the engine objects in the order blob, face, font,
\* shaping buffer, draw-callback table, and destroy (SharedFontData and
\* GlyphHandle alike, also when initialize gives up half way) releases the
\* objects held in exactly the reverse of that order.
C4_ReverseRelease ==
    [][ /\ (call'.op = "destroy" /\ call'.before = "live") =>
              Releases(call'.events) = ReverseReleaseOf(HeldBy(sharedFont[call'.ptr]))
        /\ call'.op = "gh_destroy" =>
              Releases(call'.events) = ReverseReleaseOf(HeldBy(glyphHandle))
        /\ call'.op \in {"create", "initialize"} =>
              LET created == Creates(call'.events)
              IN  /\ created = [i \in 1..Len(created) |-> CreateEvent[Objects[i]]]
                  /\ Releases(call'.events) =
                        IF call'.initOk THEN << >>
                        ELSE ReverseReleaseOf(CreatedBy(created))
                  /\ call'.initOk => Len(created) = Len(Objects)
      ]_vars

\* C4 witness: a live session holding all five engine objects was destroyed
\* and all five were released.
C4_Witness ==
    /\ call.op = "destroy" /\ call.before = "live"
    /\ Len(Releases(call.events)) = Len(Objects)

\* C5: an extraction entry point called with the handle 0 or with a handle
\* that was already destroyed returns null, calls no engine function and
\* reads nothing through the handle.
C5_InvalidHandleFails ==
    (call.op \in JniExtractOps /\ (call.ptr = NULL \/ call.before = "freed")) =>
        (~call.array /\ call.events = << >> /\ ~call.trace.shaped)

\* C6: in a serial run of extractions on one session, a call with the same
\* codepoint and variations as an earlier call returns the same GlyphPath
\* contents, whatever ran in between.
C6_RepeatedCallSameResult ==
    ( /\ ExtractedLive
      /\ first.set
      /\ probe = [codepoint |-> call.codepoint, variations |-> call.variations] ) =>
        Contents(call.path) = Contents(first.path)

\* C7 as the code has it: when shaping yields zero glyphs the result is
\* empty, advanceWidth and the bounding box are 0, and unitsPerEm is the
\* session's units-per-em (it is written before shaping).
C7_ZeroGlyphsResult ==
    (ExtractedLive /\ call.trace.shaped /\ call.trace.glyphCount = 0) =>
        /\ isEmpty(call.path)
        /\ call.path.advanceWidth = FZero
        /\ call.path.minX = FZero /\ call.path.minY = FZero
        /\ call.path.maxX = FZero /\ call.path.maxY = FZero
        /\ call.path.unitsPerEm = call.upem

\* C7 witness: a codepoint shaped to zero glyphs on a session whose
\* units-per-em is 1000.
C7_Witness ==
    /\ ExtractedLive /\ call.trace.shaped /\ call.trace.glyphCount = 0
    /\ call.upem = 1000
    /\ isEmpty(call.path)

\* C7 as stated: when shaping yields zero glyphs every numeric field of the
\* result, unitsPerEm included, is 0.
C7_ZeroGlyphsAllZero ==
    (ExtractedLive /\ call.trace.shaped /\ call.trace.glyphCount = 0) =>
        /\ isEmpty(call.path)
        /\ call.path.advanceWidth = FZero
        /\ call.path.minX = FZero /\ call.path.minY = FZero
        /\ call.path.maxX = FZero /\ call.path.maxY = FZero
        /\ call.path.unitsPerEm = 0

\* C8: for a result with at least one coordinate-carrying command, minX,
\* minY, maxX and maxY are the least and greatest of the scaled coordinates
\* the commands use, so that every such coordinate lies inside the box.
C8_BoundingBox ==
    LET cmds == call.path.commands.data
    IN  (ExtractedLive /\ UsedX(cmds) # {}) =>
            /\ IsMinOf(call.path.minX, UsedX(cmds))
            /\ IsMaxOf(call.path.maxX, UsedX(cmds))
            /\ IsMinOf(call.path.minY, UsedY(cmds))
            /\ IsMaxOf(call.path.maxY, UsedY(cmds))

\* C9: the first stored command of every non-empty result is MoveTo, also
\* when allocations failed and appends were dropped.
C9_FirstIsMoveTo ==
    (ExtractedLive /\ ~isEmpty(call.path)) =>
        call.path.commands.data[1].type = MOVE_TO

\* C10: on a session whose unitsPerEm is 0 extraction returns an empty
\* result and never evaluates the scale 1/unitsPerEm.
C10_ZeroUpemFailsSafely ==
    (ExtractedLive /\ call.upem = 0) =>
        (isEmpty(call.path) /\ ~call.trace.scaled)


\* v is the font-unit value units taken times 1/upem, once: the exact
\* quotient when upem is not 0, and what the float product with 1/0 is
\* (an infinity, or NaN for 0) when it is.
IsNormalised(v, units, upem) ==
    IF upem # 0
    THEN v.k = "fin" /\ v.d # 0 /\ v.n * upem = units * v.d
    ELSE v.k = (IF units > 0 THEN "inf" ELSE IF units < 0 THEN "ninf" ELSE "nan")

\* The stored command is the outline-walk callback with each of its
\* coordinates normalised.
IsNormalisedCommand(cmd, callback, upem) ==
    /\ cmd.type = callback.type
    /\ Len(callback.args) = UsedSlots(cmd.type)
    /\ \A k \in 1..UsedSlots(cmd.type) : IsNormalised(cmd.f[k], callback.args[k], upem)

RECURSIVE NormalisedFrom(_, _, _, _, _)
\* The stored commands from the j-th on are, in order, normalised callbacks
\* of the walk from the i-th on (callbacks whose append was dropped are
\* skipped).
NormalisedFrom(stored, walk, i, j, upem) ==
    IF j > Len(stored) THEN TRUE
    ELSE IF i > Len(walk) THEN FALSE
    ELSE IF IsNormalisedCommand(stored[j], walk[i], upem)
         THEN NormalisedFrom(stored, walk, i + 1, j + 1, upem)
         ELSE NormalisedFrom(stored, walk, i + 1, j, upem)

\* C11: in every result for which a glyph was found, advanceWidth is the
\* glyph's horizontal advance times 1/unitsPerEm, every coordinate a stored
\* command uses is the value the outline walk delivered times that scale,
\* applied once, and unitsPerEm is the font's value.
C11_Normalised ==
    (ExtractedLive /\ call.trace.scaled) =>
        /\ IsNormalised(call.path.advanceWidth,
                        hb_font_get_glyph_h_advance(call.trace.glyph_id), call.upem)
        /\ NormalisedFrom(call.path.commands.data, call.trace.walk, 1, 1, call.upem)
        /\ call.path.unitsPerEm = call.upem

\* C11 witness: glyph 1 (advance 600) extracted whole at 1000 units per em:
\* the advance is 0.6 and the curve's end point is (-2/1000, 8/1000).
C11_Witness ==
    /\ ExtractedLive /\ call.trace.scaled /\ call.upem = 1000
    /\ call.trace.glyph_id = 1
    /\ FEq(call.path.advanceWidth, Fin(6, 10))
    /\ Len(call.path.commands.data) = 4
    /\ call.path.commands.data[3].type = QUADRATIC_TO
    /\ FEq(call.path.commands.data[3].f[3], Fin(-2, 1000))

\* The last call handed a packed array to the caller.
PackedReturned ==
    /\ call.array
    /\ \/ call.op \in JniExtractOps /\ call.before = "live"
       \/ call.op = "gh_pack"
\* W: the record width of the library's packer.
WidthOf(v) == IF v = "compose" THEN 10 ELSE 7
\* The type codes: MoveTo=0, LineTo=1, QuadraticTo=2, CubicTo=3, Close=4.
TypeOfCode == << MOVE_TO, LINE_TO, QUADRATIC_TO, CUBIC_TO, CLOSE >>
\* Slot k (counted from 0) of a buffer.
Slot(buffer, k) == buffer[k + 1]

\* C12: the packed buffer of a GlyphPath with n commands has 7 + n*W slots
\* (W = 10 compose, 7 runtime); slots 0..6 are n, advanceWidth, unitsPerEm,
\* minX, minY, maxX, maxY; record i starts at slot 7 + i*W with the type
\* code of command i (MoveTo=0 .. Close=4), commands in order; in the
\* 10-wide layout three zero padding slots precede the six floats.
C12_PackedLayout ==
    PackedReturned =>
        LET p == call.packed
            cmds == call.path.commands.data
            n == Len(cmds)
            W == WidthOf(variant)
            floatsAt == IF variant = "compose" THEN 4 ELSE 1
        IN  /\ Len(p) = 7 + n * W
            /\ Slot(p, 0) = Fin(n, 1)
            /\ Slot(p, 1) = call.path.advanceWidth
            /\ Slot(p, 2) = Fin(call.path.unitsPerEm, 1)
            /\ Slot(p, 3) = call.path.minX /\ Slot(p, 4) = call.path.minY
            /\ Slot(p, 5) = call.path.maxX /\ Slot(p, 6) = call.path.maxY
            /\ \A i \in 0..(n - 1) :
                LET at == 7 + i * W
                IN  /\ Slot(p, at).k = "fin" /\ Slot(p, at).d = 1
                    /\ Slot(p, at).n \in 0..4
                    /\ TypeOfCode[Slot(p, at).n + 1] = cmds[i + 1].type
                    /\ variant = "compose" =>
                          \A k \in 1..3 : Slot(p, at + k) = FZero
                    /\ \A k \in 1..6 : Slot(p, at + floatsAt + k - 1) = cmds[i + 1].f[k]

\* C12 witness: the 10-wide buffer of glyph 1, four commands in 47 slots,
\* whose third record is a QuadraticTo.
C12_Witness ==
    /\ PackedReturned /\ variant = "compose"
    /\ Len(call.packed) = 47
    /\ Slot(call.packed, 27) = Fin(2, 1)

\* What a reader recovers from a buffer knowing only its command count and
\* each record's type code: the header and, per command, the type and the
\* coordinates that type uses.
Unpack(v, p) ==
    LET n == Slot(p, 0).n
        W == WidthOf(v)
        floatsAt == IF v = "compose" THEN 4 ELSE 1
        record(i) ==
            LET at == 7 + (i - 1) * W
                type == TypeOfCode[Slot(p, at).n + 1]
            IN  [type |-> type,
                 f |-> [k \in 1..UsedSlots(type) |-> Slot(p, at + floatsAt + k - 1)]]
    IN  [commands |-> [i \in 1..n |-> record(i)],
         advanceWidth |-> Slot(p, 1), unitsPerEm |-> Slot(p, 2).n,
         minX |-> Slot(p, 3), minY |-> Slot(p, 4),
         maxX |-> Slot(p, 5), maxY |-> Slot(p, 6)]

\* C13: decoding a packed buffer from the command count and the records'
\* type codes recovers the header and every command's type and used
\* coordinates, equal to those of the GlyphPath that was packed.
C13_RoundTrip ==
    PackedReturned => Unpack(variant, call.packed) = Contents(call.path)

\* C13 witness: a runtime buffer holding a curve was decoded.
C13_Witness ==
    /\ PackedReturned /\ variant = "runtime"
    /\ \E i \in DOMAIN call.path.commands.data :
          call.path.commands.data[i].type \in {QUADRATIC_TO, CUBIC_TO}
    /\ Len(Unpack(variant, call.packed).commands) = Len(call.path.commands.data)

\* C14: the two packing strategies of compose-glyphs write the same value
\* to every slot for the same GlyphPath, whichever the size selects.
C14_StrategiesAgree ==
    (variant = "compose" /\ ExtractedLive) =>
        /\ PackCritical(call.path) = PackThroughBuffer(call.path)
        /\ call.array =>
              /\ call.packed = PackCritical(call.path)
              /\ call.packed = PackThroughBuffer(call.path)

\* C14 witness: a path of 34 commands, 347 slots, was packed through the
\* temporary buffer.
C14_Witness ==
    /\ variant = "compose" /\ PackedReturned
    /\ Len(call.packed) >= 256
    /\ call.packed = PackThroughBuffer(call.path)

\* C15: an extraction entry point returns null when the GlyphPath is empty;
\* every buffer returned has a command count of at least 1 in slot 0 and
\* 7 + W * count slots.
C15_EmptyNeverPacked ==
    /\ ( /\ \/ call.op \in JniExtractOps /\ call.before = "live"
            \/ call.op = "gh_pack"
         /\ isEmpty(call.path) ) => (~call.array /\ call.packed = << >>)
    /\ PackedReturned =>
          /\ Slot(call.packed, 0).k = "fin" /\ Slot(call.packed, 0).d = 1
          /\ Slot(call.packed, 0).n >= 1
          /\ Len(call.packed) = 7 + WidthOf(variant) * Slot(call.packed, 0).n

\* C15 witness: a glyph was found, every append was dropped, and the entry
\* point returned null although packing could have allocated.
C15_Witness ==
    /\ call.op \in JniExtractOps /\ call.before = "live"
    /\ call.trace.scaled /\ Len(call.trace.walk) > 0
    /\ isEmpty(call.path) /\ ~call.array

\* Some call shaped or drew under axis settings another call had installed,
\* or read shaping-buffer contents another call had put there.
Interfered == \E t \in Threads : conc.threads[t].foreign

\* Both callers are inside an extraction at the same time.
BothInside ==
    \A t \in Threads : conc.threads[t].pc \notin {"idle", "done"}

\* C16: when the two callers serialise their calls per session with their
\* own mutex, or each caller uses a session of its own, no call ever shapes
\* or draws under the other call's axis settings or reads the other call's
\* shaping-buffer contents.  (The other half of the claim, that such a
\* state is reachable when nothing guards the shared session, is the
\* reachability of C16_Witness.)
C16_SerialisedCallsDoNotInterfere ==
    conc.discipline \in {"mutex", "own_session"} => ~Interfered

\* Two unguarded calls in flight on the same session, one of which has
\* shaped or drawn under what the other had set.
C16_Witness ==
    /\ conc.discipline = "unguarded"
    /\ \A t \in Threads : conc.threads[t].session = 1
    /\ BothInside
    /\ Interfered

\* C17: in every interleaving the draw callbacks of a call append to the
\* command array of that call's own GlyphPath only: the drawing leaves the
\* result of every other call and all session-owned state unchanged, and
\* no other call's context points at the same array.
C17_DrawWritesOwnResultOnly ==
    [][\A t \in Threads :
          (conc.threads[t].pc = "draw" /\ conc'.threads[t].pc = "scale") =>
              /\ conc.threads[t].ctx = t
              /\ \A u \in Threads \ {t} :
                    /\ conc.threads[u].ctx # conc.threads[t].ctx
                    /\ conc'.threads[u].result = conc.threads[u].result
              /\ sharedFont' = sharedFont
              /\ Len(conc'.threads[t].result.commands.data)
                    >= Len(conc.threads[t].result.commands.data)]_vars

\* Two unguarded calls on the same session that have both drawn while the
\* other was in flight, each holding the commands of its own outline.
C17_Witness ==
    /\ conc.discipline = "unguarded"
    /\ \A t \in Threads :
          /\ conc.threads[t].pc = "scale"
          /\ ~isEmpty(conc.threads[t].result)
    /\ conc.threads[1].result.commands.data # conc.threads[2].result.commands.data

\* The last subsetting call returned failure.
SubsetFailed == subset.op # "none" /\ ~subset.ret

\* C18: whenever a subsetting call returns failure, the output path holds
\* no partial output: the file was never opened for writing or it holds
\* every byte of a subset font.
C18_NoPartialOutput ==
    SubsetFailed => (~subset.file.opened \/ subset.file.bytes = subset.file.of)

\* C19: perform_subsetting hands the keep-glyph-names flag to the engine
\* exactly when stripGlyphNames is false, whatever tables the font has.
C19_GlyphNamesFlagInverted ==
    subset.configured =>
        ((HB_SUBSET_FLAGS_GLYPH_NAMES \in subset.flags) <=> ~subset.strip_glyph_names)

\* A call that asked to keep the glyph names of a font with a post table
\* and handed the keep-glyph-names flag to the engine.
C19_Witness ==
    /\ subset.op = "nativeSubsetFontWithAxesAndFlags"
    /\ subset.configured
    /\ ~subset.strip_glyph_names
    /\ TableLength(subset.tables, "post") > 0
    /\ HB_SUBSET_FLAGS_GLYPH_NAMES \in subset.flags

\* C20: the hinting-removal flag and desubroutinize are handed to the
\* engine when stripHinting is true and neither is when it is false,
\* whatever the font.
C20_HintingFlagsFollowArgument ==
    subset.configured =>
        /\ subset.strip_hinting =>
              {HB_SUBSET_FLAGS_NO_HINTING, HB_SUBSET_FLAGS_DESUBROUTINIZE}
                  \subseteq subset.flags
        /\ ~subset.strip_hinting =>
              {HB_SUBSET_FLAGS_NO_HINTING, HB_SUBSET_FLAGS_DESUBROUTINIZE}
                  \cap subset.flags = {}

\* The last subsetting call carried an axis configuration whose tag is not
\* exactly four characters long.
HasMalformedTag ==
    \E i \in 1..Len(subset.axis_configs) : Len(subset.axis_configs[i].tag) # 4

\* C21: a subsetting request with a malformed axis tag fails:
\* perform_subsetting returns no face, the call returns failure and writes
\* no output.
C21_MalformedTagFails ==
    (subset.op # "none" /\ HasMalformedTag) => (~subset.face /\ ~subset.ret)

\* C30: every read of the axis min, max, default and remove arrays uses an
\* index below the length of the array read, whatever lengths the caller
\* passes.
C30_AxisReadsInBounds ==
    \A r \in subset.reads : r.index < r.length

\* C22: nativeValidateFont returns valid exactly when the file opens, four
\* bytes are read and they are one of the known signatures 00 01 00 00,
\* OTTO, true, wOFF, wOF2.
C22_ValidIffKnownSignature ==
    validation.op = "nativeValidateFont" =>
        (validation.ret <=>
            /\ validation.openable
            /\ validation.read >= 4
            /\ SubSeq(validation.bytes, 1, 4) \in KnownSignatures)

\* A file that starts with the signature wOF2 and goes on, found valid.
C22_Witness ==
    /\ validation.op = "nativeValidateFont"
    /\ validation.ret
    /\ Len(validation.bytes) > 4
    /\ SubSeq(validation.bytes, 1, 4) = << 119, 79, 70, 50 >>

(***************************************************************************)
(* PathCommandArray under direct calls (SpecArray).                        *)
(***************************************************************************)
\* The step is a push_back call.
PushStep == pathArray'.op = "push_back" /\ pathArray'.count = pathArray.count + 1

\* C23: when the allocation a push_back needs fails, the append is dropped
\* and the buffer is as it was: size, capacity, the storage pointer and
\* every stored command are unchanged and the old storage is not freed.
C23_FailedPushLeavesBufferAsItWas ==
    [][ (PushStep /\ AllocationFailed(pathArray.arr, pathArray'.arr, pathArray'.allocOk))
          => /\ Len(pathArray'.arr.data) = Len(pathArray.arr.data)
             /\ pathArray'.arr.capacity = pathArray.arr.capacity
             /\ pathArray'.arr.storage = pathArray.arr.storage
             /\ pathArray'.arr.data = pathArray.arr.data
             /\ pathArray'.arr.freed = pathArray.arr.freed ]_vars

\* A push_back that stored its command, after an earlier push_back on a
\* full buffer with commands in it was dropped for a failed allocation.
C23_Witness ==
    /\ pathArray.op = "push_back"
    /\ pathArray.dropped > 0
    /\ Len(pathArray.arr.data) > 1
    /\ Len(pathArray.pushed) > Len(pathArray.arr.data)
    /\ pathArray.arr.data[Len(pathArray.arr.data)] = NthCommand(pathArray.count)

\* Every allocation the array has requested so far has succeeded.
EveryAllocationSucceeded == pathArray.op # "none" /\ pathArray.failures = 0

\* The stored commands are the commands pushed since the last clear, in
\* push order, and size <= capacity.
HoldsWhatWasPushed ==
    EveryAllocationSucceeded
      => /\ pathArray.arr.data = pathArray.pushed
         /\ Len(pathArray.arr.data) <= pathArray.arr.capacity

\* A step of a constructed array without failed allocations: the capacity
\* never decreases, changes only to grown when a push finds the buffer full
\* or by a larger explicit reserve, and clear empties the array keeping
\* capacity and storage.
CapacityRule(grown) ==
    (pathArray.op # "none" /\ pathArray'.failures = 0)
      => /\ pathArray'.arr.capacity >= pathArray.arr.capacity
         /\ pathArray'.arr.capacity # pathArray.arr.capacity
              => \/ /\ PushStep
                    /\ Len(pathArray.arr.data) >= pathArray.arr.capacity
                    /\ pathArray'.arr.capacity = grown
                 \/ /\ pathArray'.op = "reserve"
                    /\ pathArray'.arr.capacity \in ReserveSizes
         /\ pathArray'.op = "clear"
              => /\ Len(pathArray'.arr.data) = 0
                 /\ pathArray'.arr.capacity = pathArray.arr.capacity
                 /\ pathArray'.arr.storage = pathArray.arr.storage

\* C24 (as stated): with every allocation succeeding the array holds the
\* commands pushed since the last clear in push order, size <= capacity, and
\* the capacity changes only by doubling when a push finds the buffer full or
\* by a larger explicit reserve, never decreases, and clear keeps capacity
\* and storage.
C24_CapacityOnlyDoubles ==
    []HoldsWhatWasPushed /\ [][CapacityRule(2 * pathArray.arr.capacity)]_vars

\* C24 (amended): as stated, except that the runtime's push on an array
\* without storage grows the capacity from 0 to 8.
C24_CapacityDoublesOrStartsAtEight ==
    /\ []HoldsWhatWasPushed
    /\ [][CapacityRule(IF variant = "runtime" /\ pathArray.arr.capacity = 0
                       THEN RuntimeFirstCapacity
                       ELSE 2 * pathArray.arr.capacity)]_vars

\* The runtime array after its first growth from 0 to 8 and a doubling to
\* 16 that copied the eight stored commands, nothing having failed.
C24_Witness ==
    /\ variant = "runtime"
    /\ EveryAllocationSucceeded
    /\ pathArray.op = "push_back"
    /\ pathArray.arr.capacity = 2 * RuntimeFirstCapacity
    /\ Len(pathArray.arr.data) = RuntimeFirstCapacity + 1
    /\ pathArray.arr.data = pathArray.pushed
    /\ pathArray.arr.freed # {}

\* C28: push_back drops a command only when an allocation attempted during
\* that call fails; in every state of the array, the one left by a failed
\* reservation in the constructor included, a push_back for which the
\* allocator would succeed stores the command and increases size by 1.
C28_PushDropsOnlyOnFailedAllocation ==
    [][ PushStep
          => /\ Len(pathArray'.arr.data) = Len(pathArray.arr.data)
                  => AllocationFailed(pathArray.arr, pathArray'.arr, pathArray'.allocOk)
             /\ pathArray'.allocOk
                  => pathArray'.arr.data
                       = Append(pathArray.arr.data, NthCommand(pathArray'.count)) ]_vars

(***************************************************************************)
(* Variations of nativeExtractPathN (SpecVariations).                      *)
(***************************************************************************)
\* The (tag, value) pairs of the request: those of two given arrays of the
\* same non-zero length, none otherwise.
RequestedVariations ==
    IF /\ ~variationCall.tags.null /\ ~variationCall.values.null
       /\ Len(variationCall.tags.elems) = Len(variationCall.values.elems)
    THEN [i \in 1..Len(variationCall.tags.elems) |->
            [tag |-> HB_TAG(intToTag(variationCall.tags.elems[i])),
             value |-> variationCall.values.elems[i]]]
    ELSE << >>

\* C25: the engine is handed min(variationCount, N) axis settings, the
\* first N of the request in order, N being 4 in compose-glyphs and 16 in
\* the runtime; no fixed-size variation array is accessed at an index >=
\* its length, whatever the numbers of tags and values.
C25_FirstNVariationsInBounds ==
    variationCall.op # "none"
      => LET N == IF variant = "compose" THEN 4 ELSE 16
             request == RequestedVariations
         IN  /\ Len(variationCall.handed) = (IF Len(request) < N THEN Len(request) ELSE N)
             /\ variationCall.handed = SubSeq(request, 1, Len(variationCall.handed))
             /\ \A a \in variationCall.accesses : a.index < a.length

\* A request of more variations than the array holds, cut to the first N.
C25_Witness ==
    /\ variationCall.op # "none"
    /\ Len(RequestedVariations) > MaxVariations(variant)
    /\ Len(variationCall.handed) = MaxVariations(variant)
    /\ variationCall.accesses # {}

(***************************************************************************)
(* Release of the engine objects (Spec).                                   *)
(***************************************************************************)
\* How often the event occurs in the sequence.
Occurrences(events, e) == Len(SelectSeq(events, LAMBDA x : x = e))

\* Over one call with the given engine events, each object of the session
\* is created at most once and only into a null field, released at most
\* once and only when it exists, and its field is non-null afterwards
\* exactly when it exists.
Accounted(before, after, events) ==
    \A i \in DOMAIN Objects :
        LET o == Objects[i]
            created == Occurrences(events, CreateEvent[o])
            released == Occurrences(events, ReleaseEvent[o])
            held(s) == IF s[o] THEN 1 ELSE 0
        IN  /\ created <= 1 /\ released <= 1
            /\ created = 1 => ~before[o]
            /\ held(before) + created - released = held(after)

\* The engine events of the step that belong to the session at the address.
EventsOn(a) ==
    IF \/ call'.op = "create" /\ call'.ret = a
       \/ call'.op = "destroy" /\ call'.ptr = a /\ call'.before = "live"
    THEN call'.events ELSE << >>

\* C26: each engine object is released exactly once on every exit path: a
\* failing initialize destroys every object it created and leaves all
\* fields null, and over any sequence of destroy calls and the destructor no
\* object is destroyed twice and none is left undestroyed.
C26_ReleasedExactlyOnce ==
    [][ /\ \A a \in Addresses : Accounted(sharedFont[a], sharedFont'[a], EventsOn(a))
        /\ Accounted(glyphHandle, glyphHandle',
                     IF call'.op \in {"initialize", "gh_destroy"} THEN call'.events
                     ELSE << >>)
        /\ (call'.op = "create" /\ call'.ret # NULL /\ ~call'.initOk)
              => /\ HeldBy(sharedFont'[call'.ret]) = << >>
                 /\ Len(Releases(call'.events)) = Len(Creates(call'.events))
        /\ (call'.op = "initialize" /\ ~call'.initOk)
              => /\ HeldBy(glyphHandle') = << >>
                 /\ Len(Releases(call'.events)) = Len(Creates(call'.events))
        /\ (call'.op = "destroy" /\ call'.before = "live")
              => /\ HeldBy(sharedFont'[call'.ptr]) = << >>
                 /\ Len(Releases(call'.events)) = Len(HeldBy(sharedFont[call'.ptr]))
        /\ call'.op = "gh_destroy"
              => /\ HeldBy(glyphHandle') = << >>
                 /\ Len(Releases(call'.events)) = Len(HeldBy(glyphHandle))
      ]_vars

\* GlyphHandle::initialize created all five objects, its first shaping
\* yielded no glyph, and it returned false with all five released.
C26_Witness ==
    /\ call.op = "initialize" /\ ~call.initOk
    /\ Len(Creates(call.events)) = Len(Objects)
    /\ Len(Releases(call.events)) = Len(Objects)
    /\ HeldBy(glyphHandle) = << >>

\* C27: every GlyphPath an extraction returns has a well-formed bounding
\* box, minX <= maxX and minY <= maxY, also when the glyph found has an
\* outline of no commands or of Close commands only.
C27_BoundingBoxWellFormed ==
    ExtractedLive
      => /\ FLe(call.path.minX, call.path.maxX)
         /\ FLe(call.path.minY, call.path.maxY)

(***************************************************************************)
(* The logging globals (SpecLogging).                                      *)
(***************************************************************************)
\* C29: under every interleaving of nativeSetLogger, JNI_OnUnload and
\* log_message, the callback is invoked only while g_jvm, g_logger and
\* g_logMethod are all set and never through a deleted global reference,
\* g_jvm is not used while null, every global reference is deleted at most
\* once and at most one is live, and log_message detaches the thread
\* exactly when it attached it.
C29_LoggingGlobalsConsistent ==
    /\ logging.invoked.happened
          => /\ logging.invoked.g_jvm
             /\ logging.invoked.g_logger # 0
             /\ logging.invoked.g_logMethod
             /\ logging.invoked.ref = "live"
    /\ ~logging.fault
    /\ \A r \in Refs : logging.refs[r] # "deleted_twice"
    /\ Cardinality({ r \in Refs : logging.refs[r] = "live" }) <= 1
    /\ logging.last.detached = logging.last.attached

=============================================================================
